---------------------------- MODULE Spec2Model ----------------------------
(***************************************************************************)
(* A model of the mahi client (lib/client.js): the authorization decision  *)
(* engine MahiClient.prototype.authorize.                                   *)
(*                                                                         *)
(* authorize is a synchronous function of its argument and of the answer   *)
(* of the aperture evaluator.  The initial states draw the identity blobs  *)
(* a caller holds (a principal and a resource owner) from bounded sets;    *)
(* the action Authorize models one call with them: it draws the rest of    *)
(* the argument (action, resource.roles, conditions.activeRoles) and the   *)
(* evaluator's answer, and records what the call returned or threw, the    *)
(* value of its locals when it ended, and every call it made to            *)
(* evaluator.evaluate.                                                     *)
(***************************************************************************)
EXTENDS Integers, Sequences, FiniteSets, TLC

(***************************************************************************)
(* Bounds of the model.                                                    *)
(***************************************************************************)
\* longest conditions.activeRoles list
MaxActive == 2
\* most rules a principal holds, summed over its roles
MaxRules == 2

(***************************************************************************)
(* The values the inputs are drawn from.                                   *)
(***************************************************************************)
ADMIN_ROLE_NAME == "administrator"

AccountUuids == {"A", "B"}
\* the account login that belongs to an account uuid
LoginOf(uuid) == IF uuid = "A" THEN "alice" ELSE "bob"

\* role uuids a principal may hold, and one that no principal holds
HeldRoleIds == {"R1", "R2"}
RoleIds == HeldRoleIds \cup {"R3"}
RoleNames == {ADMIN_ROLE_NAME, "reader"}

\* A rule is a [text, parsed] pair.  The aperture parser sets
\* parsed.resources to the number 1 when the rule's target is '*' or 'all';
\* 0 stands for any other target.
Rules ==
    { <<"CAN read *", [effect |-> "read", resources |-> 1]>>,
      <<"CAN read x", [effect |-> "read", resources |-> 0]>> }

Actions == {"read"}

NoUser == "none"
NotCalled == [kind |-> "notcalled", detail |-> ""]

\* the lists of at most n distinct elements of S
RECURSIVE SeqsUpTo(_, _)
SeqsUpTo(S, n) ==
    IF n = 0 THEN {<<>>}
    ELSE LET shorter == SeqsUpTo(S, n - 1)
         IN  shorter \cup
             UNION { { Append(s, x) :
                         x \in {y \in S : \A k \in 1..Len(s) : s[k] # y} } :
                     s \in shorter }

\* an account object as the server returns it; the login follows the uuid
Accounts ==
    { [uuid |-> u, login |-> LoginOf(u),
       approved_for_provisioning |-> a, isOperator |-> op] :
        u \in AccountUuids, a \in BOOLEAN, op \in BOOLEAN }

RoleRecords ==
    [name : RoleNames, account : AccountUuids, rules : SeqsUpTo(Rules, MaxRules)]

RECURSIVE SumRules(_, _)
SumRules(roles, ids) ==
    IF ids = {} THEN 0
    ELSE LET id == CHOOSE x \in ids : TRUE
         IN  Len(roles[id].rules) + SumRules(roles, ids \ {id})

\* principal.roles: role uuid -> role, for the roles the principal holds
RoleMaps ==
    { roles \in UNION { [held -> RoleRecords] : held \in SUBSET HeldRoleIds } :
        SumRules(roles, DOMAIN roles) <= MaxRules }

\* resource.roles: the role tags of the resource
ResourceTagLists == {<<>>, <<"R1">>, <<"R2">>, <<"R1", "R2">>}

ActiveRoleLists == SeqsUpTo(RoleIds, MaxActive)

\* The principal's account is "A" (the model is symmetric in the two uuids);
\* user is the user object, or NoUser when the principal is a bare account.
Principals ==
    { [account |-> a, user |-> u, roles |-> r] :
        a \in {x \in Accounts : x.uuid = "A"}, u \in {NoUser, "U1"}, r \in RoleMaps }

\* resource.owner is principal-shaped; authorize reads only its account
Owners == { [account |-> a] : a \in Accounts }

NoCall ==
    [principal |-> [account |-> [uuid |-> "", login |-> "",
                                 approved_for_provisioning |-> FALSE,
                                 isOperator |-> FALSE],
                    user |-> NoUser, roles |-> <<>>],
     action |-> "",
     resource |-> [owner |-> [account |-> [uuid |-> "", login |-> "",
                                           approved_for_provisioning |-> FALSE,
                                           isOperator |-> FALSE]],
                   roles |-> <<>>],
     conditions |-> [activeRoles |-> <<>>]]

(***************************************************************************)
(* lib/errors.js: an error is its restCode and the argument its message    *)
(* carries.                                                                *)
(***************************************************************************)
AccountBlockedError(account) == [kind |-> "AccountBlocked", detail |-> account]
\* mutant: the error does not carry the role id
InvalidRoleErrorNoId(r) == [kind |-> "InvalidRole", detail |-> ""]
InvalidRoleError(r) == [kind |-> "InvalidRole", detail |-> r]
\* defined by lib/errors.js; no statement of lib/client.js constructs it
CrossAccountError == [kind |-> "CrossAccount", detail |-> ""]
NoMatchingRoleTagError == [kind |-> "NoMatchingRoleTag", detail |-> ""]
RulesEvaluationFailedError == [kind |-> "RulesEvaluationFailed", detail |-> ""]
\* return (true)
Allow == [kind |-> "allow", detail |-> ""]
\* no error thrown
NoError == [kind |-> "none", detail |-> ""]

(***************************************************************************)
(* MahiClient.prototype.authorize                                          *)
(*                                                                         *)
(* The loop index i is 1-based here (the code's i plus one); i = 0 stands  *)
(* for the code's i before the loop has assigned it.                       *)
(***************************************************************************)
\* how a call ends: what it returned or threw, the value of its locals i,
\* matchingRoles and rulesToEvaluate at that moment, and the calls it made
\* to the evaluator
End(res, i, matching, rules, calls) ==
    [result |-> res, i |-> i, matchingRoles |-> matching,
     rulesToEvaluate |-> rules, evalCalls |-> calls]

\* the final context given to aperture
Context(o) ==
    [action |-> o.action, conditions |-> o.conditions, resource |-> ""]

\* mutant: the bypass forgets the owner of the resource
OperatorOnly(principal, owner) ==
    principal.user = NoUser /\ principal.account.isOperator

\* mutant: the bypass forgets the operator
OwnerOnly(principal, owner) ==
    principal.user = NoUser /\ owner.account.uuid = principal.account.uuid

\* mutant: the bypass does not look at principal.user
OwnerOrOperatorAlsoForUsers(principal, owner) ==
    \/ owner.account.uuid = principal.account.uuid
    \/ principal.account.isOperator

\* the caller is acting as an account owner (not a user) and is the owner
\* of the resource or an operator
OwnerOrOperator(principal, owner) ==
    /\ principal.user = NoUser
    /\ \/ owner.account.uuid = principal.account.uuid
       \/ principal.account.isOperator

\* mutant: the checks as they were before operators were exempted
BlockedCheckNoOperatorExemption(principal, resource) ==
    IF ~principal.account.approved_for_provisioning
    THEN AccountBlockedError(principal.account.login)
    ELSE IF ~resource.owner.account.approved_for_provisioning
    THEN AccountBlockedError(resource.owner.account.login)
    ELSE NoError

\* the two approved_for_provisioning checks: the error thrown, or NoError
BlockedCheck(principal, resource) ==
    IF /\ ~principal.account.approved_for_provisioning
       /\ ~principal.account.isOperator
    THEN AccountBlockedError(principal.account.login)
    ELSE IF /\ ~resource.owner.account.approved_for_provisioning
            /\ ~resource.owner.account.isOperator
            /\ ~principal.account.isOperator
    THEN AccountBlockedError(resource.owner.account.login)
    ELSE NoError

\* principal.roles[id] is set
HoldsRole(principal, id) == id \in DOMAIN principal.roles

\* mutant: the filter keeps every rule of the role
rulesWithAllKeepsAll(role) == role.rules

\* role.rules.filter(rule[1].resources === 1)
rulesWithAll(role) ==
    SelectSeq(role.rules, LAMBDA rule : rule[2].resources = 1)

\* mutant: only the operator's own administrator role allows
AdminAllowsOperatorOnly(role, principal, owner) ==
    /\ principal.account.isOperator
    /\ principal.account.uuid = role.account

\* mutant: the administrator role allows whatever account it belongs to
AdminAllowsAnyAccount(role, principal, owner) ==
    \/ owner.account.uuid = principal.account.uuid
    \/ principal.account.isOperator

\* the two returns of the ADMIN_ROLE_NAME branch
AdminAllows(role, principal, owner) ==
    \/ owner.account.uuid = role.account
    \/ /\ principal.account.isOperator
       /\ principal.account.uuid = role.account

\* mutant: the caller tests the position with > 0 instead of >= 0, which is
\* this position shifted down by one
indexOfShifted(arr, x) ==
    IF \E k \in 1..Len(arr) : arr[k] = x
    THEN (CHOOSE k \in 1..Len(arr) :
            arr[k] = x /\ \A j \in 1..(k - 1) : arr[j] # x) - 2
    ELSE -2

\* Array.prototype.indexOf, 0-based, -1 when absent
indexOf(arr, x) ==
    IF \E k \in 1..Len(arr) : arr[k] = x
    THEN (CHOOSE k \in 1..Len(arr) :
            arr[k] = x /\ \A j \in 1..(k - 1) : arr[j] # x) - 1
    ELSE -1

\* mutant: the role's rules are put in front of the list, not at its end
PushRulesInFront(rulesSoFar, rules) ==
    [k \in 1..Len(rules) |-> rules[k][2]] \o rulesSoFar

\* rules.forEach(rulesToEvaluate.push(rule[1])): the parsed halves, in order
PushRules(rulesSoFar, rules) ==
    rulesSoFar \o [k \in 1..Len(rules) |-> rules[k][2]]

\* mutant: the two emptiness checks in the other order
EvaluateRulesCheckedFirst(o, i, matching, rules, ok) ==
    IF Len(rules) = 0
    THEN End(RulesEvaluationFailedError, i, matching, rules, <<>>)
    ELSE IF Len(matching) = 0
    THEN End(NoMatchingRoleTagError, i, matching, rules, <<>>)
    ELSE LET call == [rules |-> rules, context |-> Context(o), ok |-> ok]
         IN  IF ~ok
             THEN End(RulesEvaluationFailedError, i, matching, rules, <<call>>)
             ELSE End(Allow, i, matching, rules, <<call>>)

\* what follows the loop: the two emptiness checks and the evaluation
Evaluate(o, i, matching, rules, ok) ==
    IF Len(matching) = 0
    THEN End(NoMatchingRoleTagError, i, matching, rules, <<>>)
    ELSE IF Len(rules) = 0
    THEN End(RulesEvaluationFailedError, i, matching, rules, <<>>)
    ELSE LET call == [rules |-> rules, context |-> Context(o), ok |-> ok]
         IN  IF ~ok
             THEN End(RulesEvaluationFailedError, i, matching, rules, <<call>>)
             ELSE End(Allow, i, matching, rules, <<call>>)

\* mutant: a role the principal does not hold is passed over
RoleStepSkipsUnknown(o, i, matching, rules) ==
    LET principal == o.principal
        owner == o.resource.owner
        resourceTags == o.resource.roles
        activeRoles == o.conditions.activeRoles
        goOn(m, r) == [done |-> FALSE, end |-> End(NoError, i, m, r, <<>>)]
        stop(res) == [done |-> TRUE, end |-> End(res, i, matching, rules, <<>>)]
    IN  IF ~HoldsRole(principal, activeRoles[i])
        THEN goOn(matching, rules)
        ELSE LET role == principal.roles[activeRoles[i]] IN
             IF role.name = ADMIN_ROLE_NAME
             THEN IF AdminAllows(role, principal, owner)
                  THEN stop(Allow)
                  ELSE goOn(matching, rules)
             ELSE IF indexOf(resourceTags, activeRoles[i]) >= 0
             THEN goOn(Append(matching, activeRoles[i]),
                       PushRules(rules, role.rules))
             ELSE IF Len(rulesWithAll(role)) > 0
             THEN goOn(Append(matching, activeRoles[i]),
                       PushRules(rules, rulesWithAll(role)))
             ELSE goOn(matching, rules)

\* One pass of the loop body, for activeRoles[i]: either the call ends
\* (done, with how it ended) or the loop goes on with the two lists.
RoleStep(o, i, matching, rules) ==
    LET principal == o.principal
        owner == o.resource.owner
        resourceTags == o.resource.roles
        activeRoles == o.conditions.activeRoles
        goOn(m, r) == [done |-> FALSE, end |-> End(NoError, i, m, r, <<>>)]
        stop(res) == [done |-> TRUE, end |-> End(res, i, matching, rules, <<>>)]
    IN  IF ~HoldsRole(principal, activeRoles[i])
        THEN stop(InvalidRoleError(activeRoles[i]))
        ELSE LET role == principal.roles[activeRoles[i]] IN
             IF role.name = ADMIN_ROLE_NAME
             THEN IF AdminAllows(role, principal, owner)
                  THEN stop(Allow)
                  ELSE goOn(matching, rules)
             ELSE IF indexOf(resourceTags, activeRoles[i]) >= 0
             THEN goOn(Append(matching, activeRoles[i]),
                       PushRules(rules, role.rules))
             ELSE IF Len(rulesWithAll(role)) > 0
             THEN goOn(Append(matching, activeRoles[i]),
                       PushRules(rules, rulesWithAll(role)))
             ELSE goOn(matching, rules)

\* the loop over activeRoles from index i on, and what follows it
RECURSIVE RoleLoop(_, _, _, _, _)
RoleLoop(o, i, matching, rules, ok) ==
    IF i > Len(o.conditions.activeRoles)
    THEN Evaluate(o, i, matching, rules, ok)
    ELSE LET step == RoleStep(o, i, matching, rules)
         IN  IF step.done THEN step.end
             ELSE RoleLoop(o, i + 1, step.end.matchingRoles,
                           step.end.rulesToEvaluate, ok)

\* mutant: the loop runs without the approved_for_provisioning checks
authorizeSkipsBlockedCheck(o, ok) ==
    IF OwnerOrOperator(o.principal, o.resource.owner)
    THEN End(Allow, 0, <<>>, <<>>, <<>>)
    ELSE RoleLoop(o, 1, <<>>, <<>>, ok)

\* authorize(opts), with ok the answer evaluator.evaluate gives if called
authorize(o, ok) ==
    IF OwnerOrOperator(o.principal, o.resource.owner)
    THEN End(Allow, 0, <<>>, <<>>, <<>>)
    ELSE IF BlockedCheck(o.principal, o.resource) # NoError
    THEN End(BlockedCheck(o.principal, o.resource), 0, <<>>, <<>>, <<>>)
    ELSE RoleLoop(o, 1, <<>>, <<>>, ok)

(***************************************************************************)
(* The state machine.  A caller holds the identity blobs of a principal    *)
(* and of a resource owner (from getAccount, getUser, ...) and calls       *)
(* authorize with them; each call runs to its end in one step.             *)
(***************************************************************************)
VARIABLES
    principalInfo,    \* the principal blob the caller holds
    ownerInfo,        \* the resource owner blob the caller holds
    opts,             \* the argument of the authorize call
    result,           \* what it returned (allow) or threw (kind, detail)
    i,                \* its loop index when it ended
    matchingRoles,    \* its local matchingRoles when it ended
    rulesToEvaluate,  \* its local rulesToEvaluate when it ended
    evalCalls         \* the calls it made to evaluator.evaluate

vars == <<principalInfo, ownerInfo, opts, result, i, matchingRoles,
          rulesToEvaluate, evalCalls>>

\* The client object and the event loop it runs on.
VARIABLES
    evaluator,        \* self.evaluator: "bound" (built from opts.typeTable
                      \* by the constructor) or "none"
    evaluation,       \* the type table and the evaluator of the authorize call
    authCache,        \* self.authCache: path -> info blob
    translationCache, \* self.translationCache: key -> login, name or uuid
    closed,           \* close() has been called
    immediates,       \* the functions queued by setImmediate, oldest first
    inflight,         \* the http requests that have no response yet
    calls,            \* the calls made to the client: operation, arguments,
                      \* requests issued, invocations of the caller's callback
    maxAuthCacheSize,         \* max of self.authCache
    maxTranslationCacheSize,  \* max of self.translationCache
    other             \* a second client object, with its caches, requests
                      \* and calls

clientVars == <<evaluator, evaluation, authCache, translationCache, closed,
                immediates, inflight, calls, maxAuthCacheSize,
                maxTranslationCacheSize, other>>

allVars == <<vars, clientVars>>

\* no authorize call is under way
NoEvaluation ==
    [typeTable |-> FALSE, ok |-> [bound |-> FALSE, request |-> FALSE],
     used |-> "none"]

\* the number of entries a cache holds when the options give none
DefaultMax == 50

\* opts.max... || 50: an option that is not given is 0 here
MaxOr50(option) == IF option # 0 THEN option ELSE DefaultMax

\* new MahiClient(opts): empty caches of the sizes opts gives, and an
\* evaluator when opts.typeTable is given
MahiClient(typeTable, optMaxAuthCacheSize, optMaxTranslationCacheSize) ==
    /\ evaluator = (IF typeTable THEN "bound" ELSE "none")
    /\ maxAuthCacheSize = MaxOr50(optMaxAuthCacheSize)
    /\ maxTranslationCacheSize = MaxOr50(optMaxTranslationCacheSize)
    /\ evaluation = NoEvaluation
    /\ authCache = <<>>
    /\ translationCache = <<>>
    /\ closed = FALSE
    /\ immediates = <<>>
    /\ inflight = {}
    /\ calls = <<>>

\* a client object on which no method was called yet
NewClient ==
    [authCache |-> <<>>, translationCache |-> <<>>, immediates |-> <<>>,
     inflight |-> {}, calls |-> <<>>, held |-> NoCall.principal,
     closed |-> FALSE]

AuthInit ==
    /\ MahiClient(TRUE, 0, 0)
    /\ other = NewClient
    /\ principalInfo \in Principals
    /\ ownerInfo \in Owners
    /\ opts = NoCall
    /\ result = NotCalled
    /\ i = 0
    /\ matchingRoles = <<>>
    /\ rulesToEvaluate = <<>>
    /\ evalCalls = <<>>

\* the caller calls authorize(opts) for an action on a resource of the
\* owner, with some roles active; ok is the evaluator's answer, if asked
Authorize ==
    /\ result = NotCalled
    /\ \E action \in Actions, tags \in ResourceTagLists,
          activeRoles \in ActiveRoleLists, ok \in BOOLEAN :
        LET o == [principal |-> principalInfo, action |-> action,
                  resource |-> [owner |-> ownerInfo, roles |-> tags],
                  conditions |-> [activeRoles |-> activeRoles]]
            r == authorize(o, ok)
        IN  /\ opts' = o
            /\ result' = r.result
            /\ i' = r.i
            /\ matchingRoles' = r.matchingRoles
            /\ rulesToEvaluate' = r.rulesToEvaluate
            /\ evalCalls' = r.evalCalls
    /\ UNCHANGED <<principalInfo, ownerInfo>>
    /\ UNCHANGED clientVars

\* the caller has consumed the result; the call's locals are gone
Return ==
    /\ result # NotCalled
    /\ opts' = NoCall
    /\ result' = NotCalled
    /\ i' = 0
    /\ matchingRoles' = <<>>
    /\ rulesToEvaluate' = <<>>
    /\ evalCalls' = <<>>
    /\ evaluation' = NoEvaluation
    /\ UNCHANGED <<principalInfo, ownerInfo>>
    /\ UNCHANGED <<evaluator, authCache, translationCache, closed,
                   immediates, inflight, calls, maxAuthCacheSize,
                   maxTranslationCacheSize, other>>

AuthNext == Authorize \/ Return

AuthSpec == AuthInit /\ [][AuthNext]_allVars

(***************************************************************************)
(* Properties of authorize.                                                *)
(***************************************************************************)
Called == result # NotCalled

\* the inputs of the call, by the names the specification uses
Principal == opts.principal
Owner == opts.resource.owner
ResourceRoles == {opts.resource.roles[k] : k \in 1..Len(opts.resource.roles)}
ActiveRoles == opts.conditions.activeRoles

(***************************************************************************)
(* The six-step procedure of the specification, written from its text.     *)
(***************************************************************************)
\* step 1
SpecBypass(p, res) ==
    /\ p.user = NoUser
    /\ (res.owner.account.uuid = p.account.uuid \/ p.account.isOperator)

\* step 2: the login named by AccountBlocked, or "" when no account is blocked
SpecBlockedLogin(p, res) ==
    CASE ~p.account.approved_for_provisioning /\ ~p.account.isOperator
            -> p.account.login
      [] /\ ~(~p.account.approved_for_provisioning /\ ~p.account.isOperator)
         /\ ~res.owner.account.approved_for_provisioning
         /\ ~res.owner.account.isOperator
         /\ ~p.account.isOperator
            -> res.owner.account.login
      [] OTHER -> ""

\* step 3, for the k-th active role
SpecUnknown(p, act, k) == act[k] \notin DOMAIN p.roles
SpecIsAdmin(p, act, k) ==
    ~SpecUnknown(p, act, k) /\ p.roles[act[k]].name = "administrator"
SpecAdminBypass(p, res, act, k) ==
    /\ SpecIsAdmin(p, act, k)
    /\ \/ res.owner.account.uuid = p.roles[act[k]].account
       \/ (p.account.isOperator /\ p.account.uuid = p.roles[act[k]].account)
SpecTagged(res, act, k) == \E t \in 1..Len(res.roles) : res.roles[t] = act[k]
SpecIsWildcard(rule) == rule[2].resources = 1
SpecHasWildcard(p, act, k) ==
    \E n \in 1..Len(p.roles[act[k]].rules) : SpecIsWildcard(p.roles[act[k]].rules[n])
SpecMatches(p, res, act, k) ==
    /\ ~SpecUnknown(p, act, k)
    /\ ~SpecIsAdmin(p, act, k)
    /\ (SpecTagged(res, act, k) \/ SpecHasWildcard(p, act, k))

\* the rules the k-th active role adds to the evaluation set
RECURSIVE SpecParsedOf(_, _)
SpecParsedOf(rules, onlyWildcard) ==
    IF rules = <<>> THEN <<>>
    ELSE IF onlyWildcard /\ ~SpecIsWildcard(Head(rules))
    THEN SpecParsedOf(Tail(rules), onlyWildcard)
    ELSE <<Head(rules)[2]>> \o SpecParsedOf(Tail(rules), onlyWildcard)

SpecContribution(p, res, act, k) ==
    IF ~SpecMatches(p, res, act, k) THEN <<>>
    ELSE SpecParsedOf(p.roles[act[k]].rules, ~SpecTagged(res, act, k))

\* the evaluation set: the contributions of the first n active roles
RECURSIVE SpecEvaluationSet(_, _, _, _)
SpecEvaluationSet(p, res, act, n) ==
    IF n = 0 THEN <<>>
    ELSE SpecEvaluationSet(p, res, act, n - 1) \o SpecContribution(p, res, act, n)

\* the matching roles among the first n active roles
RECURSIVE SpecMatching(_, _, _, _)
SpecMatching(p, res, act, n) ==
    IF n = 0 THEN <<>>
    ELSE SpecMatching(p, res, act, n - 1) \o
         (IF SpecMatches(p, res, act, n) THEN <<act[n]>> ELSE <<>>)

\* the first active role that ends the call in step 3, or 0
SpecFirstTerminal(p, res, act) ==
    LET T == {k \in 1..Len(act) :
                SpecUnknown(p, act, k) \/ SpecAdminBypass(p, res, act, k)}
    IN  IF T = {} THEN 0 ELSE CHOOSE k \in T : \A j \in T : k <= j

\* The procedure's outcome: a final result, or "delegate" with the
\* evaluation set handed to the rule evaluator.
SpecProcedure(o) ==
    LET p == o.principal
        res == o.resource
        act == o.conditions.activeRoles
        t == SpecFirstTerminal(p, res, act)
        final(kind, detail) ==
            [delegate |-> FALSE, kind |-> kind, detail |-> detail, rules |-> <<>>]
    IN  IF SpecBypass(p, res) THEN final("allow", "")
        ELSE IF SpecBlockedLogin(p, res) # ""
        THEN final("AccountBlocked", SpecBlockedLogin(p, res))
        ELSE IF t # 0 /\ SpecUnknown(p, act, t) THEN final("InvalidRole", act[t])
        ELSE IF t # 0 THEN final("allow", "")
        ELSE IF SpecMatching(p, res, act, Len(act)) = <<>>
        THEN final("NoMatchingRoleTag", "")
        ELSE IF SpecEvaluationSet(p, res, act, Len(act)) = <<>>
        THEN final("RulesEvaluationFailed", "")
        ELSE [delegate |-> TRUE, kind |-> "", detail |-> "",
              rules |-> SpecEvaluationSet(p, res, act, Len(act))]

\* C1: for every input, the outcome of authorize (allow, or the error kind
\* with its detail) is the outcome of the six-step procedure, the evaluator
\* is called exactly when the procedure delegates, with the procedure's
\* evaluation set as its rules and {action, conditions} as its context, and
\* the result then follows the evaluator's answer.
C1_AuthorizeFollowsProcedure ==
    Called =>
        LET e == SpecProcedure(opts)
        IN  IF e.delegate
            THEN /\ Len(evalCalls) = 1
                 /\ evalCalls[1].rules = e.rules
                 /\ evalCalls[1].context.action = opts.action
                 /\ evalCalls[1].context.conditions = opts.conditions
                 /\ result.kind = (IF evalCalls[1].ok THEN "allow"
                                   ELSE "RulesEvaluationFailed")
                 /\ result.detail = ""
            ELSE /\ evalCalls = <<>>
                 /\ result.kind = e.kind
                 /\ result.detail = e.detail

\* C1 witness: two active roles both contributed rules, the second role's
\* after the first's, and the evaluator accepted them
C1_Witness ==
    /\ Called
    /\ Len(matchingRoles) = 2
    /\ Len(evalCalls) = 1
    /\ Len(evalCalls[1].rules) = 2
    /\ evalCalls[1].rules[1] # evalCalls[1].rules[2]
    /\ ~SpecTagged(opts.resource, ActiveRoles, 1)
    /\ SpecTagged(opts.resource, ActiveRoles, 2)
    /\ result = Allow

\* C2: a principal with no user component whose account uuid is the
\* resource owner's account uuid is allowed, whatever activeRoles and
\* resource.roles hold and whether or not either account is approved for
\* provisioning; the evaluator is not consulted.
C2_AccountSelfAllowed ==
    (/\ Called
     /\ Principal.user = NoUser
     /\ Principal.account.uuid = Owner.account.uuid)
        => result = Allow /\ evalCalls = <<>>

\* C2 witness: the account owner is allowed although both account objects
\* are not approved, an active role id is one the principal does not hold,
\* and the resource carries tags
C2_Witness ==
    /\ Called
    /\ Principal.user = NoUser
    /\ Principal.account.uuid = Owner.account.uuid
    /\ ~Principal.account.approved_for_provisioning
    /\ ~Principal.account.isOperator
    /\ ~Owner.account.approved_for_provisioning
    /\ \E k \in 1..Len(ActiveRoles) : ActiveRoles[k] \notin DOMAIN Principal.roles
    /\ ResourceRoles # {}
    /\ result = Allow

\* C3: a bare operator account (isOperator, no user component) is allowed on
\* a resource owned by another account, whatever activeRoles holds and
\* whether or not the operator account or the owner is approved.
C3_OperatorAllowed ==
    (/\ Called
     /\ Principal.user = NoUser
     /\ Principal.account.isOperator
     /\ Principal.account.uuid # Owner.account.uuid)
        => result = Allow /\ evalCalls = <<>>

\* C3 witness: operator A, resource of blocked account B, no active role
C3_Witness ==
    /\ Called
    /\ Principal.user = NoUser
    /\ Principal.account.isOperator
    /\ ~Principal.account.approved_for_provisioning
    /\ Principal.account.uuid # Owner.account.uuid
    /\ ~Owner.account.approved_for_provisioning
    /\ ~Owner.account.isOperator
    /\ ActiveRoles = <<>>
    /\ result = Allow

\* the positions of activeRoles whose id the principal does not hold
UnknownPositions ==
    {k \in 1..Len(ActiveRoles) : ActiveRoles[k] \notin DOMAIN Principal.roles}
FirstUnknown == CHOOSE k \in UnknownPositions : \A j \in UnknownPositions : k <= j

\* neither the owner/operator bypass nor a blocked account ends the call
\* before the loop over activeRoles
ReachesLoop ==
    /\ Called
    /\ ~SpecBypass(Principal, opts.resource)
    /\ SpecBlockedLogin(Principal, opts.resource) = ""

\* C4 as stated: whenever activeRoles contains an id that is not a key of
\* principal.roles the call fails with InvalidRole naming such an id,
\* whatever other ids activeRoles holds and in whatever order.  (Stated
\* here for the calls that reach the loop over activeRoles.)
C4_InvalidRoleWhateverTheOrder ==
    (ReachesLoop /\ UnknownPositions # {})
        => /\ result.kind = "InvalidRole"
           /\ \E k \in UnknownPositions : result.detail = ActiveRoles[k]

\* C4 amended: when the call reaches the loop and activeRoles contains an
\* id that is not a key of principal.roles, the call fails with InvalidRole
\* naming the first such id, provided no administrator role that grants the
\* bypass stands before it in activeRoles; the other ids do not matter.
C4_InvalidRoleFirstUnknown ==
    (/\ ReachesLoop
     /\ UnknownPositions # {}
     /\ \A j \in 1..(FirstUnknown - 1) :
            ~SpecAdminBypass(Principal, opts.resource, ActiveRoles, j))
        => /\ result = [kind |-> "InvalidRole", detail |-> ActiveRoles[FirstUnknown]]
           /\ evalCalls = <<>>

\* C4 witness: an unknown id after a role that is tagged on the resource
\* and holds rules fails the call
C4_Witness ==
    /\ ReachesLoop
    /\ Len(ActiveRoles) = 2
    /\ UnknownPositions = {2}
    /\ SpecMatches(Principal, opts.resource, ActiveRoles, 1)
    /\ Len(rulesToEvaluate) > 0
    /\ result.kind = "InvalidRole"
    /\ result.detail = ActiveRoles[2]

\* the k-th active role is held, is named administrator and belongs to the
\* account that owns the resource
AdminOfOwner(k) ==
    /\ k \in 1..Len(ActiveRoles)
    /\ ActiveRoles[k] \in DOMAIN Principal.roles
    /\ Principal.roles[ActiveRoles[k]].name = "administrator"
    /\ Principal.roles[ActiveRoles[k]].account = Owner.account.uuid

\* C5: an active role named administrator whose account is the resource
\* owner's account uuid makes the call return allow, whatever rules the role
\* holds (even none) and whatever the evaluator would answer, once the loop
\* comes to it (no account is blocked and no unknown id stands before it);
\* and whenever activeRoles holds such a role the evaluator is never called
\* and the call is never decided by NoMatchingRoleTag or
\* RulesEvaluationFailed.
C5_AdministratorOfOwnerAllowed ==
    Called =>
        \A k \in 1..Len(ActiveRoles) :
            AdminOfOwner(k) =>
                /\ evalCalls = <<>>
                /\ result.kind \in {"allow", "AccountBlocked", "InvalidRole"}
                /\ (/\ SpecBlockedLogin(Principal, opts.resource) = ""
                    /\ \A j \in 1..(k - 1) : j \notin UnknownPositions)
                        => result = Allow

\* C5 witness: a sub-user whose only active role is an administrator role
\* of the owner's account, holding no rules and not tagged on the resource
C5_Witness ==
    /\ Called
    /\ Principal.user # NoUser
    /\ Len(ActiveRoles) = 1
    /\ AdminOfOwner(1)
    /\ Principal.roles[ActiveRoles[1]].rules = <<>>
    /\ ResourceRoles = {}
    /\ ~Principal.account.isOperator
    /\ result = Allow
    /\ evalCalls = <<>>

\* the k-th active role is held and named administrator, and grants no
\* bypass: its account is not the resource owner's, and it is not the own
\* account of an operator principal
ForeignAdmin(k) ==
    /\ k \in 1..Len(ActiveRoles)
    /\ ActiveRoles[k] \in DOMAIN Principal.roles
    /\ Principal.roles[ActiveRoles[k]].name = "administrator"
    /\ Principal.roles[ActiveRoles[k]].account # Owner.account.uuid
    /\ ~(/\ Principal.account.isOperator
         /\ Principal.account.uuid = Principal.roles[ActiveRoles[k]].account)

\* the elements of a list
Range(seq) == {seq[k] : k \in 1..Len(seq)}

\* the active roles the loop went past before the call ended
PassedRoles == IF i = 0 THEN 0 ELSE i - 1

\* C6: an administrator-named role is never recorded as matching, and the
\* evaluation set holds only what the matching (non-administrator) roles
\* contribute, so no rule of an administrator-named role enters it for
\* being that role's rule, tagged or wildcard, even when the role's uuid is
\* among resource.roles; when the call reaches the loop and every active
\* role is such an administrator role of a foreign account, the result is
\* NoMatchingRoleTag.
C6_ForeignAdministratorConfersNothing ==
    Called =>
        /\ \A r \in Range(matchingRoles) :
               /\ r \in DOMAIN Principal.roles
               /\ Principal.roles[r].name # "administrator"
        /\ matchingRoles = SpecMatching(Principal, opts.resource, ActiveRoles, PassedRoles)
        /\ rulesToEvaluate =
               SpecEvaluationSet(Principal, opts.resource, ActiveRoles, PassedRoles)
        /\ (\A k \in 1..Len(ActiveRoles) :
                ActiveRoles[k] \in DOMAIN Principal.roles
                    => Principal.roles[ActiveRoles[k]].name = "administrator")
               => rulesToEvaluate = <<>> /\ evalCalls = <<>>
        /\ (/\ ReachesLoop
            /\ ActiveRoles # <<>>
            /\ \A k \in 1..Len(ActiveRoles) : ForeignAdmin(k))
               => /\ result = [kind |-> "NoMatchingRoleTag", detail |-> ""]
                  /\ matchingRoles = <<>>

\* C6 witness: the only active role is an administrator role of a foreign
\* account that is tagged on the resource and holds a wildcard rule and a
\* tag-scoped rule
C6_Witness ==
    /\ ReachesLoop
    /\ Len(ActiveRoles) = 1
    /\ ForeignAdmin(1)
    /\ ActiveRoles[1] \in ResourceRoles
    /\ Len(Principal.roles[ActiveRoles[1]].rules) = 2
    /\ Principal.account.isOperator
    /\ result.kind = "NoMatchingRoleTag"
    /\ rulesToEvaluate = <<>>

\* the k-th active role is held and is not named administrator
OrdinaryRole(k) ==
    /\ k \in 1..Len(ActiveRoles)
    /\ ActiveRoles[k] \in DOMAIN Principal.roles
    /\ Principal.roles[ActiveRoles[k]].name # "administrator"

\* the call reaches the loop and no active role ends it there
ReachesEvaluation ==
    /\ ReachesLoop
    /\ SpecFirstTerminal(Principal, opts.resource, ActiveRoles) = 0

\* the parsed halves of a role's rules; of its wildcard rules only
ParsedRules(role) == SpecParsedOf(role.rules, FALSE)
WildcardRules(role) == SpecParsedOf(role.rules, TRUE)

\* opts with the tag r taken off the resource
WithoutTag(o, r) ==
    [o EXCEPT !.resource.roles = SelectSeq(@, LAMBDA t : t # r)]

\* C7: when an ordinary (non-administrator) active role the principal holds
\* is tagged on the resource and holds rules, and the call comes to the
\* evaluation, the role is recorded as matching, all its rules are handed to
\* the evaluator, and the call returns allow if the evaluator accepts; when
\* that role is the only active role and holds no wildcard rule, the same
\* call with the role's uuid removed from resource.roles fails with
\* NoMatchingRoleTag.
C7_TaggedRoleAllowsTagRemovalDenies ==
    Called =>
        \A k \in 1..Len(ActiveRoles) :
            (/\ OrdinaryRole(k)
             /\ ActiveRoles[k] \in ResourceRoles
             /\ Principal.roles[ActiveRoles[k]].rules # <<>>
             /\ ReachesEvaluation)
                => /\ ActiveRoles[k] \in Range(matchingRoles)
                   /\ Len(evalCalls) = 1
                   /\ Range(ParsedRules(Principal.roles[ActiveRoles[k]]))
                          \subseteq Range(evalCalls[1].rules)
                   /\ evalCalls[1].ok => result = Allow
                   /\ (/\ Len(ActiveRoles) = 1
                       /\ WildcardRules(Principal.roles[ActiveRoles[k]]) = <<>>)
                          => \A ok \in BOOLEAN :
                                authorize(WithoutTag(opts, ActiveRoles[k]), ok).result
                                    = [kind |-> "NoMatchingRoleTag", detail |-> ""]

\* C7 witness: the only active role is ordinary, tagged, holds one
\* tag-scoped rule and no wildcard rule, and the evaluator accepts
C7_Witness ==
    /\ ReachesEvaluation
    /\ Len(ActiveRoles) = 1
    /\ OrdinaryRole(1)
    /\ ActiveRoles[1] \in ResourceRoles
    /\ Len(Principal.roles[ActiveRoles[1]].rules) = 1
    /\ WildcardRules(Principal.roles[ActiveRoles[1]]) = <<>>
    /\ Len(evalCalls) = 1
    /\ evalCalls[1].ok
    /\ result = Allow

\* the k-th active role is ordinary, is not tagged on the resource and
\* holds at least one wildcard rule
UntaggedWildcardRole(k) ==
    /\ OrdinaryRole(k)
    /\ ActiveRoles[k] \notin ResourceRoles
    /\ WildcardRules(Principal.roles[ActiveRoles[k]]) # <<>>

\* the call reaches the loop and the loop goes past the k-th active role
LoopPasses(k) ==
    /\ ReachesLoop
    /\ LET t == SpecFirstTerminal(Principal, opts.resource, ActiveRoles)
       IN  t = 0 \/ t > k

\* C8: when the loop goes past an ordinary active role that is not tagged
\* on the resource and holds a wildcard rule, the role is recorded as
\* matching and exactly its wildcard rules, in their order, are appended to
\* the evaluation set (no tag-scoped rule of it); when it is the only active
\* role the evaluator is called with exactly those rules and the call
\* returns allow if the evaluator answers true and fails with
\* RulesEvaluationFailed if it answers false.
C8_WildcardRoleContributesWildcardRulesOnly ==
    Called =>
        \A k \in 1..Len(ActiveRoles) :
            (UntaggedWildcardRole(k) /\ LoopPasses(k))
                => LET before == SpecEvaluationSet(Principal, opts.resource,
                                                   ActiveRoles, k - 1)
                       wild == WildcardRules(Principal.roles[ActiveRoles[k]])
                   IN  /\ ActiveRoles[k] \in Range(matchingRoles)
                       /\ Len(rulesToEvaluate) >= Len(before) + Len(wild)
                       /\ SubSeq(rulesToEvaluate, 1, Len(before) + Len(wild))
                              = before \o wild
                       /\ \A n \in 1..Len(wild) : wild[n].resources = 1
                       /\ Len(ActiveRoles) = 1
                              => /\ matchingRoles = <<ActiveRoles[k]>>
                                 /\ rulesToEvaluate = wild
                                 /\ Len(evalCalls) = 1
                                 /\ evalCalls[1].rules = wild
                                 /\ result.kind = (IF evalCalls[1].ok THEN "allow"
                                                   ELSE "RulesEvaluationFailed")

\* C8 witness: the only active role is untagged and holds a tag-scoped rule
\* and a wildcard rule; the evaluator sees the wildcard rule only and
\* refuses
C8_Witness ==
    /\ ReachesLoop
    /\ Len(ActiveRoles) = 1
    /\ UntaggedWildcardRole(1)
    /\ Len(Principal.roles[ActiveRoles[1]].rules) = 2
    /\ Len(evalCalls) = 1
    /\ Len(evalCalls[1].rules) = 1
    /\ ~evalCalls[1].ok
    /\ result.kind = "RulesEvaluationFailed"

\* the two blocked-account conditions, as the specification states them
PrincipalBlocked ==
    ~Principal.account.approved_for_provisioning /\ ~Principal.account.isOperator
OwnerBlocked ==
    /\ ~Owner.account.approved_for_provisioning
    /\ ~Owner.account.isOperator
    /\ ~Principal.account.isOperator

\* C9: when the owner/operator bypass does not apply, a principal account
\* that is not approved and not an operator fails the call with
\* AccountBlocked carrying the principal account's login; otherwise an owner
\* account that is not approved and not an operator, with a principal
\* account that is not an operator, fails it with AccountBlocked carrying
\* the owner account's login; otherwise the call does not fail with
\* AccountBlocked.  Both come before the loop over activeRoles, whatever
\* the roles are, and the evaluator is not called.
C9_BlockedAccountChecks ==
    (Called /\ ~SpecBypass(Principal, opts.resource)) =>
        /\ PrincipalBlocked
               => /\ result = [kind |-> "AccountBlocked",
                               detail |-> Principal.account.login]
                  /\ i = 0 /\ evalCalls = <<>>
        /\ (~PrincipalBlocked /\ OwnerBlocked)
               => /\ result = [kind |-> "AccountBlocked",
                               detail |-> Owner.account.login]
                  /\ i = 0 /\ evalCalls = <<>>
        /\ (~PrincipalBlocked /\ ~OwnerBlocked) => result.kind # "AccountBlocked"

\* C9 witness: the owner's account is blocked, the principal's is not, and
\* the active roles are an administrator role of the owner's account and an
\* id the principal does not hold: AccountBlocked names the owner
C9_Witness ==
    /\ Called
    /\ Principal.user # NoUser
    /\ ~PrincipalBlocked
    /\ OwnerBlocked
    /\ Owner.account.uuid # Principal.account.uuid
    /\ Len(ActiveRoles) = 2
    /\ AdminOfOwner(1)
    /\ UnknownPositions = {2}
    /\ result = [kind |-> "AccountBlocked", detail |-> Owner.account.login]

\* C10: the call fails with NoMatchingRoleTag exactly when it comes to the
\* end of the loop with no role recorded as matching; when it comes there
\* with a matching role, an empty evaluation set fails it with
\* RulesEvaluationFailed without the evaluator being called, and otherwise
\* the evaluator is called once with the evaluation set and its answer
\* false fails the call with RulesEvaluationFailed.
C10_AfterTheLoop ==
    Called =>
        /\ result.kind = "NoMatchingRoleTag"
               <=> (ReachesEvaluation /\ matchingRoles = <<>>)
        /\ ReachesEvaluation =>
               /\ i = Len(ActiveRoles) + 1
               /\ matchingRoles =
                      SpecMatching(Principal, opts.resource, ActiveRoles, Len(ActiveRoles))
               /\ (matchingRoles # <<>> /\ rulesToEvaluate = <<>>)
                      => /\ result = [kind |-> "RulesEvaluationFailed", detail |-> ""]
                         /\ evalCalls = <<>>
               /\ (matchingRoles # <<>> /\ rulesToEvaluate # <<>>)
                      => /\ Len(evalCalls) = 1
                         /\ evalCalls[1].rules = rulesToEvaluate
                         /\ result.kind = (IF evalCalls[1].ok THEN "allow"
                                           ELSE "RulesEvaluationFailed")

\* C10 witness: a tagged role without rules is the only matching role:
\* RulesEvaluationFailed, and the evaluator was not called
C10_Witness ==
    /\ ReachesEvaluation
    /\ Len(matchingRoles) = 1
    /\ matchingRoles[1] \in ResourceRoles
    /\ Principal.roles[matchingRoles[1]].rules = <<>>
    /\ rulesToEvaluate = <<>>
    /\ evalCalls = <<>>
    /\ result.kind = "RulesEvaluationFailed"

(***************************************************************************)
(* C11.  authorize throws CrossAccountError when the principal is an       *)
(* account owner (no user component) making a request to a resource owned  *)
(* by a different account.  (authorize has no notion of a public resource; *)
(* the operator principal, which the step-1 bypass allows, and the blocked *)
(* accounts, which have an error of their own, are left out.)              *)
(***************************************************************************)
CrossAccountRequest ==
    /\ Called
    /\ Principal.user = NoUser
    /\ Principal.account.uuid # Owner.account.uuid
    /\ ~Principal.account.isOperator
    /\ Principal.account.approved_for_provisioning
    /\ Owner.account.approved_for_provisioning

C11_CrossAccountThrown ==
    CrossAccountRequest => result = CrossAccountError

(***************************************************************************)
(* The client's caches, retrievers and translators.                        *)
(*                                                                         *)
(* The identity service holds one account and one user of it.  A name or   *)
(* uuid translation is a string; an info blob is a record with the account,*)
(* the user (NoUser for an account blob) and the roles.                    *)
(***************************************************************************)
\* most calls of a retriever or translator in one behaviour
MaxCalls == 2

\* the options of the constructor: the maximum age of an entry of either
\* cache is 2 ticks of the clock
maxAuthCacheAgeMs == 2
maxTranslationCacheAgeMs == 2

ServerAccount ==
    [uuid |-> "A", login |-> "alice",
     approved_for_provisioning |-> TRUE, isOperator |-> FALSE]
ServerUserUuid == "U1"
ServerUserLogin == "ursula"
ServerRoles ==
    [r \in {"R1"} |->
        [name |-> "reader", account |-> "A",
         rules |-> << <<"CAN read x", [effect |-> "read", resources |-> 0]>> >>]]

\* what GET /accounts... and GET /users... answer
AccountInfo == [account |-> ServerAccount, user |-> NoUser, roles |-> <<>>]
UserInfo == [account |-> ServerAccount, user |-> ServerUserUuid,
             roles |-> ServerRoles]

\* info.user.login
UserLoginOf(user) == ServerUserLogin

\* the name the service knows a uuid by, and the uuid of a user login
NameOfUuid(uuid) == IF uuid = ServerAccount.uuid THEN ServerAccount.login
                    ELSE IF uuid = ServerUserUuid THEN ServerUserLogin
                    ELSE "xavier"
UuidOfName(name) == IF name = ServerUserLogin THEN ServerUserUuid ELSE "U2"

\* the arguments the callers use
AccountLogins == {ServerAccount.login}
UuidLists == {<<"A">>, <<"U1">>, <<"A", "U1">>}
NameLists == {<<>>, <<ServerUserLogin>>, <<ServerUserLogin, "xavier">>}
\* opts.type of getUuid; NoType when the caller gives none
NoType == ""
Types == {NoType, "user"}

NoErr == ""
TransportError == "InternalError"
\* the error of the service for a user it does not know
UserDoesNotExistError == "UserDoesNotExist"
Undefined == "undefined"

\* sprintf('%s', b) of a boolean
BoolStr(b) == IF b THEN "true" ELSE "false"

\* arr.join(sep)
RECURSIVE Join(_, _)
Join(arr, sep) ==
    IF Len(arr) = 0 THEN ""
    ELSE IF Len(arr) = 1 THEN arr[1]
    ELSE arr[1] \o sep \o Join(Tail(arr), sep)

(***************************************************************************)
(* The cache store (an LRU of the lru-cache package, created with max and  *)
(* maxAge).  A cache is the list of its entries, least recently used       *)
(* first; an entry is [key, value, age] with age the time since it was    *)
(* set (Date.now() - hit.now), which stops counting at maxAge.             *)
(***************************************************************************)
CacheIndex(cache, key) ==
    {k \in 1..Len(cache) : cache[k].key = key}

CacheWithout(cache, key) ==
    SelectSeq(cache, LAMBDA e : e.key # key)

\* an entry is visible while its age is below maxAge
Fresh(e, maxAge) == e.age < maxAge

\* cache.get(key): [hit, value, cache]; a hit makes the entry the most
\* recently used one, an expired entry is dropped
CacheGet(cache, key, maxAge) ==
    IF CacheIndex(cache, key) = {}
    THEN [hit |-> FALSE, value |-> Undefined, cache |-> cache]
    ELSE LET e == cache[CHOOSE k \in CacheIndex(cache, key) : TRUE]
         IN  IF Fresh(e, maxAge)
             THEN [hit |-> TRUE, value |-> e.value,
                   cache |-> Append(CacheWithout(cache, key), e)]
             ELSE [hit |-> FALSE, value |-> Undefined,
                   cache |-> CacheWithout(cache, key)]

\* cache.set(key, value): the entry becomes the most recently used one and
\* the least recently used entries beyond max are evicted
CacheSet(cache, key, value, max) ==
    LET added == Append(CacheWithout(cache, key),
                        [key |-> key, value |-> value, age |-> 0])
    IN  IF Len(added) > max
        THEN SubSeq(added, Len(added) - max + 1, Len(added))
        ELSE added

\* cache.reset()
CacheReset == <<>>

\* the cache one tick of the clock later
Aged(cache, maxAge) ==
    [k \in 1..Len(cache) |->
        [cache[k] EXCEPT !.age = IF @ < maxAge THEN @ + 1 ELSE @]]

\* the cache n ticks of the clock later
RECURSIVE AgedBy(_, _, _)
AgedBy(cache, maxAge, n) ==
    IF n = 0 THEN cache ELSE AgedBy(Aged(cache, maxAge), maxAge, n - 1)

(***************************************************************************)
(* The methods of the client.  Each is a function from the state S of the  *)
(* client and event loop to the state it leaves:                           *)
(*   S.authCache, S.translationCache  the caches                           *)
(*   S.immediates, S.inflight         the event loop and the transport     *)
(*   S.calls                          the record of the calls              *)
(*   S.held                           the blob the caller got last         *)
(*   S.closed                         close() was called                   *)
(* A continuation k is [call, fn]: the function fn of the call k.call.     *)
(* sync tells that the caller's callback runs inside the initiating call.  *)
(***************************************************************************)
Self ==
    [authCache |-> authCache, translationCache |-> translationCache,
     immediates |-> immediates, inflight |-> inflight, calls |-> calls,
     held |-> principalInfo, closed |-> closed]

Retrievers == {"getAccount", "getAccountById", "getUser", "getUserById"}

NoTranslations == [account |-> "", uuids |-> <<>>]

\* a function given to http.get or setImmediate: the function fn of the
\* call, with the variables it closes over
Closure(call, fn) ==
    [call |-> call, fn |-> fn, inner |-> "", path |-> "", account |-> "",
     type |-> NoType, translations |-> NoTranslations]

\* the caller's callback cb(err, value) of call c; age is the time since
\* it ran, counted up to the maximum age of the auth cache
Callback(S, c, err, value, sync) ==
    [S EXCEPT !.calls[c].cbs =
                  Append(@, [err |-> err, value |-> value, sync |-> sync,
                             age |-> 0]),
              !.held = IF err = NoErr /\ S.calls[c].op \in Retrievers
                       THEN value ELSE @]

\* mutant: the translation cache was created with the size of the auth
\* cache
TranslationSetOfAuthSize(S, key, value) ==
    [S EXCEPT !.translationCache =
        CacheSet(@, key, value, maxAuthCacheSize)]

\* self.translationCache.set(key, value)
TranslationSet(S, key, value) ==
    [S EXCEPT !.translationCache =
        CacheSet(@, key, value, maxTranslationCacheSize)]

\* setImmediate(function () { k(err, value) })
SetImmediate(S, k, err, value) ==
    [S EXCEPT !.immediates = Append(@, [k |-> k, err |-> err, value |-> value])]

\* self.http.get(path, h), asking for the names or uuids in asked
HttpGet(S, path, asked, h) ==
    [S EXCEPT !.inflight = @ \cup {[path |-> path, asked |-> asked, h |-> h]},
              !.calls[h.call].requests = Append(@, path)]

\* function gotAccount(err, info) of getAccount and getAccountById
gotAccount(S, c, err, info, sync) ==
    IF err # NoErr
    THEN Callback(S, c, err, Undefined, sync)
    ELSE LET S1 == TranslationSet(S, "/uuid/" \o info.account.uuid,
                                  info.account.login)
             S2 == TranslationSet(S1, "/account/" \o info.account.login,
                                  info.account.uuid)
         IN  Callback(S2, c, NoErr, info, sync)

\* function gotUser(err, info) of getUser
gotUser(S, c, err, info, sync) ==
    IF err # NoErr
    THEN Callback(S, c, err, Undefined, sync)
    ELSE LET S1 == TranslationSet(S, "/uuid/" \o info.account.uuid,
                                  info.account.login)
             S2 == TranslationSet(S1, "/account/" \o info.account.login,
                                  info.account.uuid)
             S3 == IF info.user # NoUser
                   THEN TranslationSet(
                            TranslationSet(S2, "/uuid/" \o info.user,
                                           UserLoginOf(info.user)),
                            "/user/" \o UserLoginOf(info.user), info.user)
                   ELSE S2
         IN  Callback(S3, c, NoErr, info, sync)

\* function gotUser(err, info) of getUserById
gotUserById(S, c, err, info, sync) ==
    IF err # NoErr
    THEN Callback(S, c, err, Undefined, sync)
    ELSE LET S1 == TranslationSet(S, "/uuid/" \o info.account.uuid,
                                  info.account.login)
             S2 == TranslationSet(S1, "/account/" \o info.account.login,
                                  info.account.uuid)
             S3 == TranslationSet(S2, "/uuid/" \o info.user,
                                  UserLoginOf(info.user))
             S4 == TranslationSet(S3, "/user/" \o UserLoginOf(info.user),
                                  info.user)
         IN  Callback(S4, c, NoErr, info, sync)

\* the call k(err, value) of a function handed to _get
Continue(S, k, err, value, sync) ==
    CASE k.fn = "gotAccount" -> gotAccount(S, k.call, err, value, sync)
      [] k.fn = "gotUser" -> gotUser(S, k.call, err, value, sync)
      [] k.fn = "gotUserById" -> gotUserById(S, k.call, err, value, sync)
      [] OTHER -> Callback(S, k.call, err, value, sync)

\* mutant: a hit calls back before _get returns
_getCompletesInline(S, path, k) ==
    LET cached == CacheGet(S.authCache, path, maxAuthCacheAgeMs)
        S1 == [S EXCEPT !.authCache = cached.cache]
    IN  IF cached.hit
        THEN Continue(S1, k, NoErr, cached.value, TRUE)
        ELSE HttpGet(S1, path, <<>>,
                     [Closure(k.call, "_get") EXCEPT !.inner = k.fn,
                                                     !.path = path])

\* mutant: a miss issues no request while one for the same path is in
\* flight
_getCoalesces(S, path, k) ==
    LET cached == CacheGet(S.authCache, path, maxAuthCacheAgeMs)
        S1 == [S EXCEPT !.authCache = cached.cache]
    IN  IF cached.hit
        THEN SetImmediate(S1, k, NoErr, cached.value)
        ELSE IF \E req \in S.inflight : req.path = path
        THEN S1
        ELSE HttpGet(S1, path, <<>>,
                     [Closure(k.call, "_get") EXCEPT !.inner = k.fn,
                                                     !.path = path])

\* mutant: the auth cache is read as if its entries never expired
_getServesStale(S, path, k) ==
    LET cached == CacheGet(S.authCache, path, maxAuthCacheAgeMs + 1)
        S1 == [S EXCEPT !.authCache = cached.cache]
    IN  IF cached.hit
        THEN SetImmediate(S1, k, NoErr, cached.value)
        ELSE HttpGet(S1, path, <<>>,
                     [Closure(k.call, "_get") EXCEPT !.inner = k.fn,
                                                     !.path = path])

\* _get(path, cb) up to its return
_get(S, path, k) ==
    LET cached == CacheGet(S.authCache, path, maxAuthCacheAgeMs)
        S1 == [S EXCEPT !.authCache = cached.cache]
    IN  IF cached.hit
        THEN SetImmediate(S1, k, NoErr, cached.value)
        ELSE HttpGet(S1, path, <<>>,
                     [Closure(k.call, "_get") EXCEPT !.inner = k.fn,
                                                     !.path = path])

\* mutant: the blob is handed on but not stored
gotResponseStoresNothing(S, h, err, obj) ==
    IF err # NoErr
    THEN Continue(S, Closure(h.call, h.inner), err, Undefined, FALSE)
    ELSE Continue(S, Closure(h.call, h.inner), NoErr, obj, FALSE)

\* the function _get gives to http.get
gotResponse(S, h, err, obj) ==
    IF err # NoErr
    THEN Continue(S, Closure(h.call, h.inner), err, Undefined, FALSE)
    ELSE Continue([S EXCEPT !.authCache =
                       CacheSet(@, h.path, obj, maxAuthCacheSize)],
                  Closure(h.call, h.inner), NoErr, obj, FALSE)

getAccount(S, c, account) ==
    _get(S, "/accounts?login=" \o account, Closure(c, "gotAccount"))

getAccountById(S, c, uuid) ==
    _get(S, "/accounts/" \o uuid, Closure(c, "gotAccount"))

\* mutant: the key of the lookup leaves the fallback flag out
getUserKeyWithoutFallback(S, c, user, account, fallback) ==
    _get(S, "/users?account=" \o account \o "&login=" \o user,
         Closure(c, "gotUser"))

getUser(S, c, user, account, fallback) ==
    _get(S, "/users?account=" \o account \o "&login=" \o user
                \o "&fallback=" \o BoolStr(fallback),
         Closure(c, "gotUser"))

\* self._get(path, cb); self._get(path, function gotUser ...)
getUserById(S, c, uuid) ==
    _get(_get(S, "/users/" \o uuid, Closure(c, "cb")),
         "/users/" \o uuid, Closure(c, "gotUserById"))

\* obj[key] = value on a mapping
Put(map, key, value) ==
    [x \in DOMAIN map \cup {key} |-> IF x = key THEN value ELSE map[x]]

\* the forEach of getName and getUuid over arr[n..]: each key is looked up
\* in the translation cache; acc is [cache, uncached, found]
RECURSIVE Lookups(_, _, _, _)
Lookups(arr, n, prefix, acc) ==
    IF n > Len(arr) THEN acc
    ELSE LET cached == CacheGet(acc.cache, prefix \o arr[n],
                                maxTranslationCacheAgeMs)
         IN  Lookups(arr, n + 1, prefix,
                 IF ~cached.hit
                 THEN [cache |-> cached.cache,
                       uncached |-> Append(acc.uncached, arr[n]),
                       found |-> acc.found]
                 ELSE [cache |-> cached.cache,
                       uncached |-> acc.uncached,
                       found |-> Put(acc.found, arr[n], cached.value)])

\* mutant: when every uuid is cached the callback runs before getName
\* returns
getNameCompletesInline(S, c, uuids) ==
    LET l == Lookups(uuids, 1, "/uuid/",
                     [cache |-> S.translationCache, uncached |-> <<>>,
                      found |-> <<>>])
        S1 == [S EXCEPT !.translationCache = l.cache]
    IN  IF Len(l.uncached) = 0
        THEN Callback(S1, c, NoErr, l.found, TRUE)
        ELSE HttpGet(S1, "/names?&uuid=" \o Join(l.uncached, "&uuid="),
                     l.uncached,
                     [Closure(c, "gotNames") EXCEPT
                          !.translations.uuids = l.found])

\* mutant: the request asks for every uuid, cached or not
getNameAsksAll(S, c, uuids) ==
    LET l == Lookups(uuids, 1, "/uuid/",
                     [cache |-> S.translationCache, uncached |-> <<>>,
                      found |-> <<>>])
        S1 == [S EXCEPT !.translationCache = l.cache]
    IN  IF Len(l.uncached) = 0
        THEN SetImmediate(S1, Closure(c, "cb"), NoErr, l.found)
        ELSE HttpGet(S1, "/names?&uuid=" \o Join(uuids, "&uuid="),
                     uuids,
                     [Closure(c, "gotNames") EXCEPT
                          !.translations.uuids = l.found])

\* getName(opts, cb) up to its return
getName(S, c, uuids) ==
    LET l == Lookups(uuids, 1, "/uuid/",
                     [cache |-> S.translationCache, uncached |-> <<>>,
                      found |-> <<>>])
        S1 == [S EXCEPT !.translationCache = l.cache]
    IN  IF Len(l.uncached) = 0
        THEN SetImmediate(S1, Closure(c, "cb"), NoErr, l.found)
        ELSE HttpGet(S1, "/names?&uuid=" \o Join(l.uncached, "&uuid="),
                     l.uncached,
                     [Closure(c, "gotNames") EXCEPT
                          !.translations.uuids = l.found])

\* the forEach over Object.keys(obj) of the responses: obj is the list of
\* its <<key, value>> pairs
RECURSIVE Merge(_, _, _, _)
Merge(S, obj, prefix, found) ==
    IF Len(obj) = 0 THEN [S |-> S, found |-> found]
    ELSE Merge(TranslationSet(S, prefix \o obj[1][1], obj[1][2]),
               Tail(obj), prefix, Put(found, obj[1][1], obj[1][2]))

\* mutant: on an error the callback still gets the names found in the cache
gotNamesPartialOnError(S, h, err, obj) ==
    IF err # NoErr
    THEN Callback(S, h.call, err, h.translations.uuids, FALSE)
    ELSE LET m == Merge(S, obj, "/uuid/", h.translations.uuids)
         IN  Callback(m.S, h.call, NoErr, m.found, FALSE)

\* the function getName gives to http.get
gotNames(S, h, err, obj) ==
    IF err # NoErr
    THEN Callback(S, h.call, err, Undefined, FALSE)
    ELSE LET m == Merge(S, obj, "/uuid/", h.translations.uuids)
         IN  Callback(m.S, h.call, NoErr, m.found, FALSE)

\* mutant: the request asks for every name, cached or not
getUuidAsksAll(S, c, account, type, names) ==
    LET accountInfo == CacheGet(S.translationCache, "/account/" \o account,
                                maxTranslationCacheAgeMs)
    IN  IF type = NoType /\ accountInfo.hit
        THEN SetImmediate([S EXCEPT !.translationCache = accountInfo.cache],
                          Closure(c, "cb"), NoErr,
                          [account |-> accountInfo.value])
        ELSE
        LET S0 == IF type = NoType
                  THEN [S EXCEPT !.translationCache = accountInfo.cache]
                  ELSE S
            l == Lookups(names, 1, "/" \o type \o "/" \o account \o "/",
                         [cache |-> S0.translationCache, uncached |-> <<>>,
                          found |-> <<>>])
            S1 == [S0 EXCEPT !.translationCache = l.cache]
            translations == [account |-> "", uuids |-> l.found]
            q == "?account=" \o account \o "&type="
                     \o (IF type = NoType THEN "undefined" ELSE type)
                     \o (IF Len(names) > 0
                         THEN "&name=" \o Join(names, "&name=")
                         ELSE "")
        IN  HttpGet(S1, "/uuids" \o q, names,
                    [Closure(c, "gotUuids") EXCEPT
                         !.account = account, !.type = type,
                         !.translations = translations])

\* getUuid(opts, cb) up to its return; type is NoType when opts.type is
\* not given, and sprintf then prints it as 'undefined'
getUuid(S, c, account, type, names) ==
    LET accountInfo == CacheGet(S.translationCache, "/account/" \o account,
                                maxTranslationCacheAgeMs)
    IN  IF type = NoType /\ accountInfo.hit
        THEN SetImmediate([S EXCEPT !.translationCache = accountInfo.cache],
                          Closure(c, "cb"), NoErr,
                          [account |-> accountInfo.value])
        ELSE
        LET S0 == IF type = NoType
                  THEN [S EXCEPT !.translationCache = accountInfo.cache]
                  ELSE S
            l == Lookups(names, 1, "/" \o type \o "/" \o account \o "/",
                         [cache |-> S0.translationCache, uncached |-> <<>>,
                          found |-> <<>>])
            S1 == [S0 EXCEPT !.translationCache = l.cache]
            translations == [account |-> "", uuids |-> l.found]
            q == "?account=" \o account \o "&type="
                     \o (IF type = NoType THEN "undefined" ELSE type)
                     \o (IF Len(l.uncached) > 0
                         THEN "&name=" \o Join(l.uncached, "&name=")
                         ELSE "")
        IN  IF translations.account # "" /\ Len(l.uncached) = 0
            THEN SetImmediate(S1, Closure(c, "cb"), NoErr, translations)
            ELSE HttpGet(S1, "/uuids" \o q, l.uncached,
                         [Closure(c, "gotUuids") EXCEPT
                              !.account = account, !.type = type,
                              !.translations = translations])

\* mutant: the account's uuid is returned but not stored
gotUuidsStoresNoAccount(S, h, err, obj) ==
    IF err # NoErr
    THEN Callback(S, h.call, err, Undefined, FALSE)
    ELSE LET m == Merge(S, obj.uuids,
                        "/" \o h.type \o "/" \o h.account \o "/",
                        h.translations.uuids)
         IN  Callback(m.S, h.call, NoErr,
                      IF h.type = NoType
                      THEN [account |-> obj.account]
                      ELSE [account |-> obj.account, uuids |-> m.found],
                      FALSE)

\* the function getUuid gives to http.get; obj is [account, uuids]
gotUuids(S, h, err, obj) ==
    IF err # NoErr
    THEN Callback(S, h.call, err, Undefined, FALSE)
    ELSE LET S1 == TranslationSet(S, "/account/" \o h.account, obj.account)
             m == Merge(S1, obj.uuids,
                        "/" \o h.type \o "/" \o h.account \o "/",
                        h.translations.uuids)
         IN  Callback(m.S, h.call, NoErr,
                      IF h.type = NoType
                      THEN [account |-> obj.account]
                      ELSE [account |-> obj.account, uuids |-> m.found],
                      FALSE)

\* close(): the caches are reset (the sockets of the transport are closed)
close(S) ==
    [S EXCEPT !.authCache = CacheReset, !.translationCache = CacheReset,
              !.closed = TRUE]

(***************************************************************************)
(* The identity service: what it answers to a request.                     *)
(***************************************************************************)
\* GET /names: the <<uuid, name>> pairs of the uuids asked for
RECURSIVE NamePairs(_)
NamePairs(asked) ==
    IF Len(asked) = 0 THEN <<>>
    ELSE <<<<asked[1], NameOfUuid(asked[1])>>>> \o NamePairs(Tail(asked))

\* GET /uuids: the <<name, uuid>> pairs of the names asked for
RECURSIVE UuidPairs(_)
UuidPairs(asked) ==
    IF Len(asked) = 0 THEN <<>>
    ELSE <<<<asked[1], UuidOfName(asked[1])>>>> \o UuidPairs(Tail(asked))

ServerAnswer(req) ==
    CASE req.h.fn = "gotNames" -> NamePairs(req.asked)
      [] req.h.fn = "gotUuids" ->
            [account |-> ServerAccount.uuid,
             uuids |-> UuidPairs(req.asked)]
      [] req.path \in {"/accounts?login=" \o ServerAccount.login,
                       "/accounts/" \o ServerAccount.uuid} -> AccountInfo
      [] OTHER -> UserInfo

(***************************************************************************)
(* authorize as a method of the client: the choice of the evaluator, then  *)
(* the decision.                                                           *)
(***************************************************************************)
\* assert.object(opts.typeTable, 'opts.typeTable') fails
AssertionError == [kind |-> "AssertionError", detail |-> "opts.typeTable"]

\* mutant: the evaluator the constructor built is preferred
EvaluatorOfPrefersBound(selfEvaluator, typeTable) ==
    IF selfEvaluator = "none" /\ ~typeTable THEN "assert"
    ELSE IF selfEvaluator # "none" THEN selfEvaluator ELSE "request"

\* the evaluator of a call: "request" is the one built from opts.typeTable,
\* "assert" stands for the failed assertion
EvaluatorOf(selfEvaluator, typeTable) ==
    IF selfEvaluator = "none" /\ ~typeTable THEN "assert"
    ELSE IF typeTable THEN "request" ELSE selfEvaluator

\* the client object as authorize finds it
This ==
    [evaluator |-> evaluator, authCache |-> authCache,
     translationCache |-> translationCache]

\* mutant: authorize keeps the principal it was given in the auth cache
authorizeOnKeepsPrincipal(self, o, typeTable, ok) ==
    LET ev == EvaluatorOf(self.evaluator, typeTable)
    IN  [end |-> IF ev = "assert"
                 THEN End(AssertionError, 0, <<>>, <<>>, <<>>)
                 ELSE authorize(o, ok[ev]),
         used |-> IF ev = "assert" THEN "none" ELSE ev,
         self |-> [self EXCEPT !.authCache =
                      CacheSet(@, "/accounts/" \o o.principal.account.uuid,
                               o.principal, maxAuthCacheSize)]]

\* self.authorize(opts), with opts.typeTable given or not and ok the answer
\* of each evaluator: how the call ends, the evaluator it took and the
\* client it leaves
authorizeOn(self, o, typeTable, ok) ==
    LET ev == EvaluatorOf(self.evaluator, typeTable)
    IN  [end |-> IF ev = "assert"
                 THEN End(AssertionError, 0, <<>>, <<>>, <<>>)
                 ELSE authorize(o, ok[ev]),
         used |-> IF ev = "assert" THEN "none" ELSE ev,
         self |-> self]

(***************************************************************************)
(* The state machine of the client: callers call its methods, the event    *)
(* loop runs the queued functions, the transport answers, time passes.     *)
(***************************************************************************)
ClientInit ==
    /\ \E typeTable \in BOOLEAN : MahiClient(typeTable, 0, 0)
    /\ other = NewClient
    /\ principalInfo = NoCall.principal
    /\ ownerInfo = NoCall.resource.owner
    /\ opts = NoCall
    /\ result = NotCalled
    /\ i = 0
    /\ matchingRoles = <<>>
    /\ rulesToEvaluate = <<>>
    /\ evalCalls = <<>>

\* a client created with small caches, of sizes chosen apart
SmallCacheInit ==
    /\ \E maxAuth \in {1, 2}, maxTranslation \in {1, 2} :
          MahiClient(FALSE, maxAuth, maxTranslation)
    /\ other = NewClient
    /\ principalInfo = NoCall.principal
    /\ ownerInfo = NoCall.resource.owner
    /\ opts = NoCall
    /\ result = NotCalled
    /\ i = 0
    /\ matchingRoles = <<>>
    /\ rulesToEvaluate = <<>>
    /\ evalCalls = <<>>

\* two clients, each created by its own call of the constructor
TwoClientsInit ==
    /\ MahiClient(FALSE, 0, 0)
    /\ other = NewClient
    /\ principalInfo = NoCall.principal
    /\ ownerInfo = NoCall.resource.owner
    /\ opts = NoCall
    /\ result = NotCalled
    /\ i = 0
    /\ matchingRoles = <<>>
    /\ rulesToEvaluate = <<>>
    /\ evalCalls = <<>>

\* the state S becomes the state of the client and the event loop
Install(S) ==
    /\ authCache' = S.authCache
    /\ translationCache' = S.translationCache
    /\ immediates' = S.immediates
    /\ inflight' = S.inflight
    /\ calls' = S.calls
    /\ principalInfo' = S.held
    /\ closed' = S.closed
    /\ UNCHANGED <<ownerInfo, opts, result, i, matchingRoles,
                   rulesToEvaluate, evalCalls, evaluator, evaluation,
                   maxAuthCacheSize, maxTranslationCacheSize, other>>

\* a caller may call: no authorize call is under way
CanCall == result = NotCalled /\ Len(calls) < MaxCalls

\* the state when the call of op begins
Begin(op, args) ==
    [Self EXCEPT !.calls =
        Append(@, [op |-> op, args |-> args, requests |-> <<>>, cbs |-> <<>>])]

GetAccount ==
    /\ CanCall
    /\ \E account \in AccountLogins :
          Install(getAccount(Begin("getAccount", <<account>>),
                             Len(calls) + 1, account))

GetAccountById ==
    /\ CanCall
    /\ \E uuid \in {ServerAccount.uuid} :
          Install(getAccountById(Begin("getAccountById", <<uuid>>),
                                 Len(calls) + 1, uuid))

GetUser ==
    /\ CanCall
    /\ \E user \in {ServerUserLogin}, account \in AccountLogins,
          fallback \in BOOLEAN :
          Install(getUser(Begin("getUser",
                                <<user, account, BoolStr(fallback)>>),
                          Len(calls) + 1, user, account, fallback))

GetUserById ==
    /\ CanCall
    /\ \E uuid \in {ServerUserUuid} :
          Install(getUserById(Begin("getUserById", <<uuid>>),
                              Len(calls) + 1, uuid))

GetName ==
    /\ CanCall
    /\ \E uuids \in UuidLists :
          Install(getName(Begin("getName", uuids), Len(calls) + 1, uuids))

\* opts.names is given together with opts.type
GetUuid ==
    /\ CanCall
    /\ \E account \in AccountLogins, type \in Types, names \in NameLists :
          /\ type = NoType => names = <<>>
          /\ Install(getUuid(Begin("getUuid", <<account, type>> \o names),
                             Len(calls) + 1, account, type, names))

\* the event loop runs the oldest function queued by setImmediate
RunImmediate ==
    /\ result = NotCalled
    /\ Len(immediates) > 0
    /\ LET im == Head(immediates)
       IN  Install(Continue([Self EXCEPT !.immediates = Tail(@)],
                            im.k, im.err, im.value, FALSE))

\* the transport completes a request, with the answer of the service or
\* with an error
Response ==
    /\ result = NotCalled
    /\ \E req \in inflight, err \in {NoErr, TransportError} :
          LET S == [Self EXCEPT !.inflight = @ \ {req}]
              obj == ServerAnswer(req)
          IN  Install(CASE req.h.fn = "gotNames" -> gotNames(S, req.h, err, obj)
                        [] req.h.fn = "gotUuids" -> gotUuids(S, req.h, err, obj)
                        [] OTHER -> gotResponse(S, req.h, err, obj))

(***************************************************************************)
(* Two client objects in one process.  Each was given its own caches by    *)
(* the constructor (self.authCache = new LRU(...)), and every method       *)
(* works on the caches of self.                                            *)
(***************************************************************************)
\* mutant: the two objects hold the same cache objects
BesideSharingCaches(T, S) ==
    [T EXCEPT !.authCache = S.authCache,
              !.translationCache = S.translationCache]

\* the client T after a step of the client beside it, which that step has
\* left as S
Beside(T, S) == T

\* the operations the callers of the two clients use
TwoClientsOperations == {"getAccount", "getName"}

\* the state a call of getAccount or getName leaves the client S in
CallOn(S, op) ==
    LET c == Len(S.calls) + 1
        begun(args) ==
            [S EXCEPT !.calls =
                Append(@, [op |-> op, args |-> args,
                           requests |-> <<>>, cbs |-> <<>>])]
    IN  IF op = "getAccount"
        THEN getAccount(begun(<<ServerAccount.login>>), c,
                        ServerAccount.login)
        ELSE getName(begun(<<ServerAccount.uuid>>), c,
                     <<ServerAccount.uuid>>)

\* the state the oldest function queued by setImmediate leaves S in
ImmediateOn(S) ==
    LET im == Head(S.immediates)
    IN  Continue([S EXCEPT !.immediates = Tail(@)],
                 im.k, im.err, im.value, FALSE)

\* the state an answer of the transport to the request req leaves S in
AnswerOn(S, req, err) ==
    LET S1 == [S EXCEPT !.inflight = @ \ {req}]
        obj == ServerAnswer(req)
    IN  IF req.h.fn = "gotNames"
        THEN gotNames(S1, req.h, err, obj)
        ELSE gotResponse(S1, req.h, err, obj)

\* S becomes the state of the first client and T of the second
InstallBoth(S, T) ==
    /\ authCache' = S.authCache
    /\ translationCache' = S.translationCache
    /\ immediates' = S.immediates
    /\ inflight' = S.inflight
    /\ calls' = S.calls
    /\ principalInfo' = S.held
    /\ closed' = S.closed
    /\ other' = T
    /\ UNCHANGED <<ownerInfo, opts, result, i, matchingRoles,
                   rulesToEvaluate, evalCalls, evaluator, evaluation,
                   maxAuthCacheSize, maxTranslationCacheSize>>

FirstCalls ==
    /\ Len(calls) < MaxCalls
    /\ \E op \in TwoClientsOperations :
          LET S == CallOn(Self, op) IN InstallBoth(S, Beside(other, S))

SecondCalls ==
    /\ Len(other.calls) < MaxCalls
    /\ \E op \in TwoClientsOperations :
          LET T == CallOn(other, op) IN InstallBoth(Beside(Self, T), T)

FirstRunsImmediate ==
    /\ Len(immediates) > 0
    /\ LET S == ImmediateOn(Self) IN InstallBoth(S, Beside(other, S))

SecondRunsImmediate ==
    /\ Len(other.immediates) > 0
    /\ LET T == ImmediateOn(other) IN InstallBoth(Beside(Self, T), T)

FirstAnswered ==
    \E req \in inflight, err \in {NoErr, TransportError} :
        LET S == AnswerOn(Self, req, err) IN InstallBoth(S, Beside(other, S))

SecondAnswered ==
    \E req \in other.inflight, err \in {NoErr, TransportError} :
        LET T == AnswerOn(other, req, err) IN InstallBoth(Beside(Self, T), T)

FirstCloses ==
    /\ ~closed
    /\ LET S == close(Self) IN InstallBoth(S, Beside(other, S))

SecondCloses ==
    /\ ~other.closed
    /\ LET T == close(other) IN InstallBoth(Beside(Self, T), T)

\* the service does not know the user of a getUser request: the transport
\* reports UserDoesNotExist, and the account's blob comes with the error
UserNotFound ==
    /\ result = NotCalled
    /\ \E req \in inflight :
          /\ calls[req.h.call].op = "getUser"
          /\ Install(gotResponse([Self EXCEPT !.inflight = @ \ {req}], req.h,
                                 UserDoesNotExistError, AccountInfo))

\* the service does not know the user of a getUser request made with
\* fallback: it answers with the blob of the account alone
AccountForMissingUser ==
    /\ result = NotCalled
    /\ \E req \in inflight :
          /\ calls[req.h.call].op = "getUser"
          /\ calls[req.h.call].args[3] = BoolStr(TRUE)
          /\ Install(gotResponse([Self EXCEPT !.inflight = @ \ {req}], req.h,
                                 NoErr, AccountInfo))

\* The blobs as JavaScript objects.  obj of the function given to http.get
\* is one object: _get stores it in the auth cache and hands the same
\* object to the callback, and a hit hands on the object the cache holds.
\* An object is its blob with its identity id; records of one id are one
\* object.
Object(id, blob) ==
    [account |-> blob.account, user |-> blob.user, roles |-> blob.roles,
     id |-> id]

\* the transport answers a request of a retriever with a new object
ResponseObject ==
    /\ result = NotCalled
    /\ \E req \in inflight :
          /\ req.h.fn = "_get"
          /\ Install(gotResponse([Self EXCEPT !.inflight = @ \ {req}], req.h,
                                 NoErr,
                                 Object(<<req.h.call, req.h.inner>>,
                                        ServerAnswer(req))))

\* the value v after info.account.isOperator = true on the object id
Modified(v, id) ==
    IF "id" \in DOMAIN v
    THEN IF v.id = id THEN [v EXCEPT !.account.isOperator = TRUE] ELSE v
    ELSE v

\* the objects the callers were given
Given ==
    {calls[c].cbs[k].value.id :
        <<c, k>> \in {ck \in (1..Len(calls)) \X (1..2) :
                         /\ ck[2] <= Len(calls[ck[1]].cbs)
                         /\ calls[ck[1]].cbs[ck[2]].err = NoErr}}

\* a caller sets info.account.isOperator = true on a blob its callback was
\* given: every holder of the object sees it
CallerModifies ==
    /\ result = NotCalled
    /\ \E id \in Given :
          /\ authCache' =
                [k \in 1..Len(authCache) |->
                    [authCache[k] EXCEPT !.value = Modified(@, id)]]
          /\ immediates' =
                [k \in 1..Len(immediates) |->
                    [immediates[k] EXCEPT !.value = Modified(@, id)]]
          /\ calls' =
                [c \in 1..Len(calls) |->
                    [calls[c] EXCEPT !.cbs =
                        [k \in 1..Len(calls[c].cbs) |->
                            IF calls[c].cbs[k].err = NoErr
                            THEN [calls[c].cbs[k] EXCEPT
                                      !.value = Modified(@, id)]
                            ELSE calls[c].cbs[k]]]]
          /\ principalInfo' = Modified(principalInfo, id)
          /\ calls' # calls
    /\ UNCHANGED <<ownerInfo, opts, result, i, matchingRoles,
                   rulesToEvaluate, evalCalls, evaluator, evaluation,
                   translationCache, closed, inflight, maxAuthCacheSize,
                   maxTranslationCacheSize, other>>

\* the callbacks of a call one tick of the clock later
AgedCall(call) ==
    [call EXCEPT !.cbs =
        [k \in 1..Len(call.cbs) |->
            [call.cbs[k] EXCEPT !.age =
                IF @ < maxAuthCacheAgeMs THEN @ + 1 ELSE @]]]

\* time passes: one tick of the clock
Tick ==
    /\ result = NotCalled
    /\ authCache' = Aged(authCache, maxAuthCacheAgeMs)
    /\ translationCache' = Aged(translationCache, maxTranslationCacheAgeMs)
    /\ calls' = [c \in 1..Len(calls) |-> AgedCall(calls[c])]
    /\ <<authCache', translationCache', calls'>>
           # <<authCache, translationCache, calls>>
    /\ UNCHANGED <<vars, evaluator, evaluation, closed, immediates, inflight,
                   maxAuthCacheSize, maxTranslationCacheSize, other>>

Close ==
    /\ result = NotCalled
    /\ ~closed
    /\ Install(close(Self))

\* a caller that holds a blob calls authorize for a resource of the blob's
\* account tagged with role R1; the evaluator built by the constructor
\* accepts the rules and the one built from opts.typeTable rejects them
AuthorizeOnClient ==
    /\ result = NotCalled
    /\ principalInfo # NoCall.principal
    /\ \E activeRoles \in {<<>>, <<"R1">>}, typeTable \in BOOLEAN,
          okBound \in {TRUE} :
        LET o == [principal |-> principalInfo, action |-> "read",
                  resource |-> [owner |-> [account |-> principalInfo.account],
                                roles |-> <<"R1">>],
                  conditions |-> [activeRoles |-> activeRoles]]
            ok == [bound |-> okBound, request |-> ~okBound]
            r == authorizeOn(This, o, typeTable, ok)
        IN  /\ opts' = o
            /\ result' = r.end.result
            /\ i' = r.end.i
            /\ matchingRoles' = r.end.matchingRoles
            /\ rulesToEvaluate' = r.end.rulesToEvaluate
            /\ evalCalls' = r.end.evalCalls
            /\ evaluation' = [typeTable |-> typeTable, ok |-> ok,
                              used |-> r.used]
            /\ evaluator' = r.self.evaluator
            /\ authCache' = r.self.authCache
            /\ translationCache' = r.self.translationCache
    /\ UNCHANGED <<principalInfo, ownerInfo, closed, immediates,
                   inflight, calls, maxAuthCacheSize,
                   maxTranslationCacheSize, other>>

ClientNext ==
    \/ GetAccount \/ GetAccountById \/ GetUser \/ GetUserById
    \/ GetName \/ GetUuid
    \/ RunImmediate \/ Response \/ Tick \/ Close
    \/ AuthorizeOnClient \/ Return

ClientSpec == ClientInit /\ [][ClientNext]_allVars

(***************************************************************************)
(* The same client driven by a caller that keeps to one group of its       *)
(* operations.  The four retrievers read and write only the identity       *)
(* cache, getName and getUuid only the translation cache of their own      *)
(* results, and authorize neither: each group is followed further than     *)
(* the whole client can be, under the same transport, clock and close.     *)
(***************************************************************************)
\* a caller of the four retrievers
RetrieverNext ==
    \/ GetAccount \/ GetAccountById \/ GetUser \/ GetUserById
    \/ RunImmediate \/ Response \/ Tick \/ Close

RetrieverSpec == ClientInit /\ [][RetrieverNext]_allVars

\* a caller of the two batch translators
TranslatorNext ==
    \/ GetName \/ GetUuid
    \/ RunImmediate \/ Response \/ Tick \/ Close

TranslatorSpec == ClientInit /\ [][TranslatorNext]_allVars

\* a caller that fetches identities by login and authorizes them
CallerNext ==
    \/ GetAccount \/ GetUser
    \/ RunImmediate \/ Response \/ Tick \/ Close
    \/ AuthorizeOnClient \/ Return

CallerSpec == ClientInit /\ [][CallerNext]_allVars

\* a caller of a retriever and of the two batch translators: every fetch
\* of the client, through _get and through the translators' own requests
FetchNext ==
    \/ GetAccount \/ GetName \/ GetUuid
    \/ RunImmediate \/ Response \/ Tick \/ Close

FetchSpec == ClientInit /\ [][FetchNext]_allVars

\* a caller of two retrievers and getName on a client with small caches
SmallCacheNext ==
    \/ GetAccount \/ GetAccountById \/ GetName
    \/ RunImmediate \/ Response \/ Tick \/ Close

SmallCacheSpec == SmallCacheInit /\ [][SmallCacheNext]_allVars

\* callers of getAccount and getAccountById that modify the blobs they are
\* given
AliasNext ==
    \/ GetAccount \/ GetAccountById
    \/ RunImmediate \/ ResponseObject \/ CallerModifies \/ Tick

AliasSpec == ClientInit /\ [][AliasNext]_allVars

\* callers of getAccount and getName on two clients
TwoClientsNext ==
    \/ FirstCalls \/ SecondCalls
    \/ FirstRunsImmediate \/ SecondRunsImmediate
    \/ FirstAnswered \/ SecondAnswered
    \/ FirstCloses \/ SecondCloses

TwoClientsSpec == TwoClientsInit /\ [][TwoClientsNext]_allVars

\* a caller of getUser, for a user the service may not know
FallbackNext ==
    \/ GetUser
    \/ RunImmediate \/ Response \/ UserNotFound \/ Tick \/ Close

FallbackSpec == ClientInit /\ [][FallbackNext]_allVars

\* callers of getUser with and without fallback, for a user the service
\* may or may not know
UserLookupNext ==
    \/ GetUser
    \/ RunImmediate \/ Response \/ UserNotFound \/ AccountForMissingUser
    \/ Tick \/ Close

UserLookupSpec == ClientInit /\ [][UserLookupNext]_allVars

(***************************************************************************)
(* Properties of the client.                                               *)
(***************************************************************************)
(***************************************************************************)
(* C12.  A call to authorize fails, whatever its input, when the client    *)
(* was created without a type table and the request passes none; when the  *)
(* request passes a type table, the evaluator built from it is the one     *)
(* the call uses, not the one the constructor built.                       *)
(***************************************************************************)
C12_TypeTableOfTheCall ==
    Called =>
        /\ (evaluator = "none" /\ ~evaluation.typeTable)
               => result = AssertionError
        /\ evaluation.typeTable =>
               /\ evaluation.used = "request"
               /\ result = authorize(opts, evaluation.ok.request).result
               /\ evalCalls = authorize(opts, evaluation.ok.request).evalCalls

\* a client without evaluator refuses the call of an account on its own
\* resource, which the step-1 bypass would allow
C12_Witness ==
    /\ Called
    /\ evaluator = "none"
    /\ ~evaluation.typeTable
    /\ Principal.user = NoUser
    /\ Principal.account.uuid = Owner.account.uuid
    /\ result = AssertionError

(***************************************************************************)
(* C13.  authorize is pure with respect to the client: a call issues no    *)
(* transport request, queues nothing, leaves both caches (contents and     *)
(* recency) and its inputs as they were, and its outcome is the one the    *)
(* same call has on a client with empty caches and nothing in flight.      *)
(***************************************************************************)
C13_AuthorizeIsPure ==
    [][(result = NotCalled /\ result' # NotCalled) =>
          /\ UNCHANGED <<authCache, translationCache, immediates, inflight,
                         calls, evaluator, closed, principalInfo,
                         ownerInfo>>
          /\ opts'.principal = principalInfo
          /\ result' =
                authorizeOn([evaluator |-> evaluator, authCache |-> <<>>,
                             translationCache |-> <<>>],
                            opts', evaluation'.typeTable,
                            evaluation'.ok).end.result]_allVars

\* authorize was called while the caches held entries and a request was
\* in flight
C13_Witness ==
    /\ Called
    /\ Len(authCache) > 0
    /\ Len(translationCache) > 0
    /\ inflight # {}

\* the canonical auth-cache key of a retriever call
KeyOf(call) ==
    CASE call.op = "getAccount" -> "/accounts?login=" \o call.args[1]
      [] call.op = "getAccountById" -> "/accounts/" \o call.args[1]
      [] call.op = "getUser" ->
            "/users?account=" \o call.args[2] \o "&login=" \o call.args[1]
                \o "&fallback=" \o call.args[3]
      [] OTHER -> "/users/" \o call.args[1]

\* this step is the initiating call of a new call, NewCall'
Begins == Len(calls') = Len(calls) + 1
NewCall == calls[Len(calls)]

\* what the auth cache holds, unexpired, for the key of the call
CachedFor(call) == CacheGet(authCache, KeyOf(call), maxAuthCacheAgeMs)

\* the functions this step has queued with setImmediate
Queued == SubSeq(immediates', Len(immediates) + 1, Len(immediates'))

(***************************************************************************)
(* C14.  For getAccount, getAccountById, getUser and getUserById: when the *)
(* auth cache holds an unexpired entry for the key of the call, the call   *)
(* issues no transport request and the cached blob is what the caller's    *)
(* callback receives; the callback never runs before the initiating call   *)
(* has returned, on a hit as on a miss: a hit queues its completion for a  *)
(* later turn of the event loop.                                           *)
(***************************************************************************)
C14_HitIsServedDeferred ==
    [][/\ (Begins /\ NewCall'.op \in Retrievers) =>
             /\ NewCall'.cbs = <<>>
             /\ CachedFor(NewCall').hit =>
                   /\ inflight' = inflight
                   /\ NewCall'.requests = <<>>
                   /\ Len(Queued) > 0
                   /\ \A k \in 1..Len(Queued) :
                         /\ Queued[k].k.call = Len(calls')
                         /\ Queued[k].err = NoErr
                         /\ Queued[k].value = CachedFor(NewCall').value
       /\ (~Begins /\ Len(immediates') < Len(immediates)
             /\ calls[Head(immediates).k.call].op \in Retrievers) =>
             LET im == Head(immediates)
                 c == im.k.call
             IN  /\ inflight' = inflight
                 /\ calls'[c].requests = calls[c].requests
                 /\ calls'[c].cbs =
                       Append(calls[c].cbs,
                              [err |-> NoErr, value |-> im.value,
                               sync |-> FALSE, age |-> 0])
       /\ \A c \in 1..Len(calls') : \A k \in 1..Len(calls'[c].cbs) :
             ~calls'[c].cbs[k].sync]_allVars

\* a getUser call that issued no request has received the user's blob
C14_Witness ==
    \E c \in 1..Len(calls) :
        /\ calls[c].op = "getUser"
        /\ calls[c].requests = <<>>
        /\ Len(calls[c].cbs) = 1
        /\ calls[c].cbs[1].err = NoErr
        /\ calls[c].cbs[1].value = UserInfo

\* the last invocation of the callback of call c, after this step
LastCb(c) == calls'[c].cbs[Len(calls'[c].cbs)]

\* this step has invoked the callback of call c
CalledBack(c) == Len(calls'[c].cbs) > Len(calls[c].cbs)

\* the entry of the cache for the key, a set of at most one entry
EntryOf(cache, key) == {cache[k] : k \in CacheIndex(cache, key)}

\* an earlier call with the operation and arguments of call missed, the
\* transport succeeded, and its blob came less than the maximum age ago
FetchedBlobs(call) ==
    {calls[c].cbs[k].value :
        <<c, k>> \in {ck \in (1..Len(calls)) \X (1..2) :
                         /\ calls[ck[1]].op = call.op
                         /\ calls[ck[1]].args = call.args
                         /\ Len(calls[ck[1]].requests) > 0
                         /\ ck[2] <= Len(calls[ck[1]].cbs)
                         /\ calls[ck[1]].cbs[ck[2]].err = NoErr
                         /\ calls[ck[1]].cbs[ck[2]].age < maxAuthCacheAgeMs}}

(***************************************************************************)
(* C15.  When a retriever call has missed and the transport succeeds, the  *)
(* blob is stored in the auth cache under the key the lookup used; a       *)
(* repeat of the operation with the same arguments before the maximum age  *)
(* has passed, with no close in between, issues no transport request and   *)
(* completes with the same blob.                                           *)
(***************************************************************************)
C15_MissStoresAndRepeatHits ==
    [][/\ \A req \in inflight :
             (inflight' = inflight \ {req} /\ req.h.fn = "_get"
                 /\ CalledBack(req.h.call) /\ LastCb(req.h.call).err = NoErr)
             => /\ req.path = KeyOf(calls[req.h.call])
                /\ EntryOf(authCache', req.path) =
                      {[key |-> req.path,
                        value |-> LastCb(req.h.call).value, age |-> 0]}
       /\ (Begins /\ NewCall'.op \in Retrievers /\ ~closed
             /\ FetchedBlobs(NewCall') # {})
             => /\ inflight' = inflight
                /\ NewCall'.requests = <<>>
                /\ Len(Queued) > 0
                /\ \A k \in 1..Len(Queued) :
                      /\ Queued[k].k.call = Len(calls')
                      /\ Queued[k].err = NoErr
                      /\ {Queued[k].value} = FetchedBlobs(NewCall')]_allVars

\* getAccountById has missed and fetched the blob, and its repeat has
\* completed with the same blob and no request
C15_Witness ==
    /\ Len(calls) = 2
    /\ calls[1].op = "getAccountById"
    /\ calls[2].op = "getAccountById"
    /\ calls[2].args = calls[1].args
    /\ Len(calls[1].requests) = 1
    /\ Len(calls[1].cbs) = 1
    /\ calls[1].cbs[1].err = NoErr
    /\ calls[2].requests = <<>>
    /\ Len(calls[2].cbs) = 1
    /\ calls[2].cbs[1].err = NoErr
    /\ calls[2].cbs[1].value = calls[1].cbs[1].value

\* the translation cache holds, unexpired, value under key
Translates(cache, key, value) ==
    LET cached == CacheGet(cache, key, maxTranslationCacheAgeMs)
    IN  cached.hit /\ cached.value = value

\* a call of one of the operations ops has given its caller a blob of the
\* account less than the maximum age of a translation ago
GotBlobOf(account, ops) ==
    \E c \in 1..Len(calls) : \E k \in 1..Len(calls[c].cbs) :
        /\ calls[c].op \in ops
        /\ calls[c].cbs[k].err = NoErr
        /\ calls[c].cbs[k].age < maxTranslationCacheAgeMs
        /\ calls[c].cbs[k].value.account = account

\* After a successful call of one of the retrievers ops the translation
\* cache holds the account's uuid -> login and login -> uuid entries, and
\* a later getName of the account's uuid and a later getUuid of its login
\* with no type issue no request (before expiry, with no close).
Backfilled(ops) ==
    /\ \A c \in 1..Len(calls) :
          (calls[c].op \in ops /\ CalledBack(c) /\ LastCb(c).err = NoErr)
          => LET account == LastCb(c).value.account
             IN  /\ Translates(translationCache', "/uuid/" \o account.uuid,
                               account.login)
                 /\ Translates(translationCache',
                               "/account/" \o account.login, account.uuid)
    /\ (Begins /\ ~closed /\ GotBlobOf(ServerAccount, ops)
          /\ NewCall'.op = "getName"
          /\ NewCall'.args = <<ServerAccount.uuid>>)
          => /\ inflight' = inflight
             /\ NewCall'.requests = <<>>
             /\ Len(Queued) = 1
             /\ Queued[1].err = NoErr
             /\ Queued[1].value =
                   [u \in {ServerAccount.uuid} |-> ServerAccount.login]
    /\ (Begins /\ ~closed /\ GotBlobOf(ServerAccount, ops)
          /\ NewCall'.op = "getUuid"
          /\ NewCall'.args = <<ServerAccount.login, NoType>>)
          => /\ inflight' = inflight
             /\ NewCall'.requests = <<>>
             /\ Len(Queued) = 1
             /\ Queued[1].err = NoErr
             /\ Queued[1].value = [account |-> ServerAccount.uuid]

(***************************************************************************)
(* C16.  After a successful getAccount, getAccountById, getUser or         *)
(* getUserById the translation cache holds the uuid -> login and           *)
(* login -> uuid entries of the blob's account, so that a later getName of *)
(* that uuid and a later getUuid of that login with no type complete       *)
(* without a transport request.                                            *)
(***************************************************************************)
C16_AccountTranslationsBackfilled ==
    [][Backfilled(Retrievers)]_allVars

\* the key getUuid reads for a name of a type under an account
NameKey(type, account, name) == "/" \o type \o "/" \o account \o "/" \o name

\* a getUser or getUserById call has given its caller a blob with the user
\* less than the maximum age of a translation ago
GotBlobOfUser(user) ==
    \E c \in 1..Len(calls) : \E k \in 1..Len(calls[c].cbs) :
        /\ calls[c].op \in {"getUser", "getUserById"}
        /\ calls[c].cbs[k].err = NoErr
        /\ calls[c].cbs[k].age < maxTranslationCacheAgeMs
        /\ calls[c].cbs[k].value.user = user

(***************************************************************************)
(* C17.  After a successful getUser or getUserById whose blob contains a   *)
(* user, the translation cache holds the user's uuid -> login entry under  *)
(* the uuid key getName reads and the user's login -> uuid entry under the *)
(* (type, account, name) key getUuid reads, so that a later getUuid of the *)
(* user's login with type 'user' under the owning account finds the uuid   *)
(* in the cache and does not ask the service for that name.                *)
(***************************************************************************)
C17_UserTranslationsUnderTheKeysRead ==
    [][/\ \A c \in 1..Len(calls) :
             (calls[c].op \in {"getUser", "getUserById"} /\ CalledBack(c)
                 /\ LastCb(c).err = NoErr /\ LastCb(c).value.user # NoUser)
             => LET info == LastCb(c).value
                IN  /\ Translates(translationCache', "/uuid/" \o info.user,
                                  UserLoginOf(info.user))
                    /\ Translates(translationCache',
                                  NameKey("user", info.account.login,
                                          UserLoginOf(info.user)),
                                  info.user)
       /\ (Begins /\ ~closed /\ GotBlobOfUser(ServerUserUuid)
             /\ NewCall'.op = "getUuid"
             /\ NewCall'.args =
                   <<ServerAccount.login, "user", ServerUserLogin>>)
             => \A req \in inflight' \ inflight : req.asked = <<>>]_allVars

\* the uuids of the list that have no unexpired translation in the cache
UncachedUuids(uuids) ==
    SelectSeq(uuids,
              LAMBDA u : ~CacheGet(translationCache, "/uuid/" \o u,
                                   maxTranslationCacheAgeMs).hit)

(***************************************************************************)
(* C18.  getName on N uuids of which M have an unexpired translation in    *)
(* the cache and N-M have not issues exactly one request, which carries    *)
(* exactly the N-M uncached uuids; when the transport answers, the         *)
(* callback gets the names of all N uuids, the cache holds the N-M fetched *)
(* translations, and the M cached ones are still held unless they expired  *)
(* or were reset while the request was in flight.                          *)
(***************************************************************************)
C18_GetNameBatchesTheUncached ==
    [][/\ (Begins /\ NewCall'.op = "getName"
             /\ Len(UncachedUuids(NewCall'.args)) > 0)
             => /\ NewCall'.cbs = <<>>
                /\ NewCall'.requests =
                      << "/names?&uuid="
                             \o Join(UncachedUuids(NewCall'.args), "&uuid=") >>
                /\ \E req \in inflight' :
                      /\ inflight' \ inflight = {req}
                      /\ req.h.call = Len(calls')
                      /\ req.path = NewCall'.requests[1]
                      /\ req.asked = UncachedUuids(NewCall'.args)
       /\ \A req \in inflight :
             (inflight' = inflight \ {req} /\ req.h.fn = "gotNames"
                 /\ CalledBack(req.h.call) /\ LastCb(req.h.call).err = NoErr)
             => LET c == req.h.call
                    names == LastCb(c).value
                IN  /\ Len(calls'[c].cbs) = 1
                    /\ DOMAIN names = Range(calls[c].args)
                    /\ \A u \in DOMAIN names : names[u] = NameOfUuid(u)
                    /\ \A u \in Range(req.asked) :
                          Translates(translationCache', "/uuid/" \o u,
                                     names[u])
                    /\ \A u \in Range(calls[c].args) \ Range(req.asked) :
                          Translates(translationCache, "/uuid/" \o u,
                                     names[u])
                          => Translates(translationCache', "/uuid/" \o u,
                                        names[u])]_allVars

\* getName of two uuids, one of them cached, has asked the service for the
\* other alone and has returned both names; the cache holds both
C18_Witness ==
    \E c \in 1..Len(calls) :
        /\ calls[c].op = "getName"
        /\ calls[c].args = <<"A", "U1">>
        /\ calls[c].requests = <<"/names?&uuid=U1">>
        /\ Len(calls[c].cbs) = 1
        /\ calls[c].cbs[1].err = NoErr
        /\ calls[c].cbs[1].value = [u \in {"A", "U1"} |-> NameOfUuid(u)]
        /\ Translates(translationCache, "/uuid/A", "alice")
        /\ Translates(translationCache, "/uuid/U1", "ursula")

\* the translation the cache holds, unexpired, for the uuid
CachedName(uuid) ==
    CacheGet(translationCache, "/uuid/" \o uuid,
             maxTranslationCacheAgeMs).value

(***************************************************************************)
(* C19.  When every uuid passed to getName has an unexpired translation in *)
(* the cache, getName issues no transport request and its callback gets    *)
(* the cached mapping in a later turn of the event loop, not before        *)
(* getName returns.                                                        *)
(***************************************************************************)
C19_GetNameAllCached ==
    [][/\ (Begins /\ NewCall'.op = "getName"
             /\ Len(UncachedUuids(NewCall'.args)) = 0)
             => /\ inflight' = inflight
                /\ NewCall'.requests = <<>>
                /\ NewCall'.cbs = <<>>
                /\ Len(Queued) = 1
                /\ Queued[1].k.call = Len(calls')
                /\ Queued[1].err = NoErr
                /\ Queued[1].value =
                      [u \in Range(NewCall'.args) |-> CachedName(u)]
       /\ (~Begins /\ Len(immediates') < Len(immediates)
             /\ calls[Head(immediates).k.call].op = "getName")
             => LET im == Head(immediates)
                    c == im.k.call
                IN  /\ inflight' = inflight
                    /\ calls'[c].requests = <<>>
                    /\ calls'[c].cbs =
                          <<[err |-> NoErr, value |-> im.value,
                             sync |-> FALSE, age |-> 0]>>]_allVars

\* getName of two cached uuids has returned both names without a request
C19_Witness ==
    \E c \in 1..Len(calls) :
        /\ calls[c].op = "getName"
        /\ calls[c].args = <<"A", "U1">>
        /\ calls[c].requests = <<>>
        /\ Len(calls[c].cbs) = 1
        /\ calls[c].cbs[1].err = NoErr
        /\ ~calls[c].cbs[1].sync
        /\ calls[c].cbs[1].value = [u \in {"A", "U1"} |-> NameOfUuid(u)]

\* the key of the account login -> uuid translation
AccountKey(login) == "/account/" \o login

(***************************************************************************)
(* C20.  getUuid with no type looks up the account login only.  If the     *)
(* translation cache holds an unexpired login -> uuid entry for the        *)
(* account, the call issues no request and completes, in a later turn,     *)
(* with that uuid; otherwise it issues one request, and when the transport *)
(* answers it stores the account uuid of the answer in the translation     *)
(* cache and returns it.                                                   *)
(***************************************************************************)
C20_GetUuidAccountOnly ==
    [][/\ (Begins /\ NewCall'.op = "getUuid" /\ NewCall'.args[2] = NoType)
             => LET login == NewCall'.args[1]
                    cached == CacheGet(translationCache, AccountKey(login),
                                       maxTranslationCacheAgeMs)
                IN  /\ NewCall'.cbs = <<>>
                    /\ cached.hit =>
                          /\ inflight' = inflight
                          /\ NewCall'.requests = <<>>
                          /\ Queued = <<[k |-> Closure(Len(calls'), "cb"),
                                         err |-> NoErr,
                                         value |-> [account |-> cached.value]]>>
                    /\ ~cached.hit =>
                          /\ Queued = <<>>
                          /\ Len(NewCall'.requests) = 1
                          /\ \E req \in inflight' :
                                /\ inflight' \ inflight = {req}
                                /\ req.h.call = Len(calls')
                                /\ req.asked = <<>>
       /\ \A req \in inflight :
             (inflight' = inflight \ {req} /\ req.h.fn = "gotUuids"
                 /\ req.h.type = NoType
                 /\ CalledBack(req.h.call) /\ LastCb(req.h.call).err = NoErr)
             => LET c == req.h.call
                IN  /\ Len(calls'[c].cbs) = 1
                    /\ LastCb(c).value = [account |-> ServerAnswer(req).account]
                    /\ EntryOf(translationCache', AccountKey(calls[c].args[1]))
                          = {[key |-> AccountKey(calls[c].args[1]),
                              value |-> ServerAnswer(req).account,
                              age |-> 0]}]_allVars

\* a getUuid with no type has fetched the account uuid, and a second one
\* has returned it from the cache
C20_Witness ==
    /\ Len(calls) = 2
    /\ calls[1].op = "getUuid" /\ calls[1].args = <<"alice", NoType>>
    /\ calls[2].op = "getUuid" /\ calls[2].args = <<"alice", NoType>>
    /\ Len(calls[1].requests) = 1
    /\ Len(calls[1].cbs) = 1
    /\ calls[1].cbs[1].err = NoErr
    /\ calls[1].cbs[1].value = [account |-> "A"]
    /\ calls[2].requests = <<>>
    /\ Len(calls[2].cbs) = 1
    /\ calls[2].cbs[1].err = NoErr
    /\ ~calls[2].cbs[1].sync
    /\ calls[2].cbs[1].value = [account |-> "A"]

\* the names of the list that have no unexpired translation of the type
\* under the account in the cache
UncachedNames(type, account, names) ==
    SelectSeq(names,
              LAMBDA n : ~CacheGet(translationCache, NameKey(type, account, n),
                                   maxTranslationCacheAgeMs).hit)

\* opts.names of a getUuid call
NamesOf(call) == SubSeq(call.args, 3, Len(call.args))

(***************************************************************************)
(* C21.  getUuid with a type and names asks the service for exactly the    *)
(* names that have no unexpired (type, account, name) translation in the   *)
(* cache; when the transport answers, every returned name -> uuid pair is  *)
(* in the cache and in the result, the result is the account uuid with a   *)
(* uuid for every requested name, cached or fetched, and the account       *)
(* login -> uuid entry is written anew from the answer, also when it was   *)
(* cached.                                                                 *)
(***************************************************************************)
C21_GetUuidBatchesTheUncached ==
    [][/\ (Begins /\ NewCall'.op = "getUuid" /\ NewCall'.args[2] # NoType)
             => LET account == NewCall'.args[1]
                    type == NewCall'.args[2]
                    uncached == UncachedNames(type, account, NamesOf(NewCall'))
                IN  /\ NewCall'.cbs = <<>>
                    /\ \A req \in inflight' \ inflight :
                          /\ req.h.call = Len(calls')
                          /\ req.asked = uncached
                    /\ Len(uncached) > 0 =>
                          /\ \E req \in inflight' : inflight' \ inflight = {req}
                          /\ NewCall'.requests =
                                << "/uuids?account=" \o account \o "&type="
                                       \o type \o "&name="
                                       \o Join(uncached, "&name=") >>
       /\ \A req \in inflight :
             (inflight' = inflight \ {req} /\ req.h.fn = "gotUuids"
                 /\ req.h.type # NoType
                 /\ CalledBack(req.h.call) /\ LastCb(req.h.call).err = NoErr)
             => LET c == req.h.call
                    account == calls[c].args[1]
                    type == calls[c].args[2]
                    got == LastCb(c).value
                IN  /\ Len(calls'[c].cbs) = 1
                    /\ got.account = ServerAnswer(req).account
                    /\ DOMAIN got.uuids = Range(NamesOf(calls[c]))
                    /\ \A n \in DOMAIN got.uuids : got.uuids[n] = UuidOfName(n)
                    /\ \A n \in Range(req.asked) :
                          Translates(translationCache',
                                     NameKey(type, account, n), got.uuids[n])
                    /\ EntryOf(translationCache', AccountKey(account))
                          = {[key |-> AccountKey(account),
                              value |-> ServerAnswer(req).account,
                              age |-> 0]}]_allVars

\* a getUuid of two user names, one of them cached by an earlier call, has
\* asked the service for the other alone and returned both uuids; the
\* account entry the earlier call had stored is new again
C21_Witness ==
    /\ Len(calls) = 2
    /\ calls[1].op = "getUuid"
    /\ calls[1].args = <<"alice", "user", "ursula">>
    /\ calls[2].op = "getUuid"
    /\ calls[2].args = <<"alice", "user", "ursula", "xavier">>
    /\ calls[2].requests = <<"/uuids?account=alice&type=user&name=xavier">>
    /\ Len(calls[2].cbs) = 1
    /\ calls[2].cbs[1].err = NoErr
    /\ calls[2].cbs[1].value.account = "A"
    /\ calls[2].cbs[1].value.uuids["ursula"] = "U1"
    /\ calls[2].cbs[1].value.uuids["xavier"] = "U2"
    /\ EntryOf(translationCache, "/user/alice/ursula")
          = {[key |-> "/user/alice/ursula", value |-> "U1", age |-> 1]}
    /\ EntryOf(translationCache, "/account/alice")
          = {[key |-> "/account/alice", value |-> "A", age |-> 0]}

\* the retriever and translator operations
Translators == {"getName", "getUuid"}
Operations == Retrievers \cup Translators

\* the transport has failed an earlier call like this one, and has answered
\* no call at all
PersistentlyFailing(call) ==
    /\ \E c \in 1..Len(calls) : \E k \in 1..Len(calls[c].cbs) :
          /\ calls[c].op = call.op
          /\ calls[c].args = call.args
          /\ calls[c].cbs[k].err # NoErr
    /\ \A c \in 1..Len(calls) : \A k \in 1..Len(calls[c].cbs) :
          calls[c].cbs[k].err # NoErr

\* A failed fetch of one of the operations ops stores nothing in either
\* cache; a later call for a key the transport keeps failing asks the
\* transport again; a call that failed has issued exactly one request.
NoNegativeCaching(ops) ==
    /\ \A req \in inflight :
          (inflight' = inflight \ {req} /\ calls[req.h.call].op \in ops
              /\ CalledBack(req.h.call) /\ LastCb(req.h.call).err # NoErr)
          => /\ authCache' = authCache
             /\ translationCache' = translationCache
    /\ (Begins /\ NewCall'.op \in ops /\ PersistentlyFailing(NewCall'))
          => /\ Len(NewCall'.requests) > 0
             /\ \E req \in inflight' \ inflight : req.h.call = Len(calls')
             /\ Queued = <<>>
    /\ \A c \in 1..Len(calls') :
          (calls'[c].op \in ops
              /\ \E k \in 1..Len(calls'[c].cbs) : calls'[c].cbs[k].err # NoErr)
          => Len(calls'[c].requests) = 1

(***************************************************************************)
(* C22.  No negative caching: when the transport fails a fetch of a        *)
(* retriever or translator operation nothing is stored in either cache, so *)
(* every later call for a key that keeps failing issues a new transport    *)
(* request; the client does not retry: a call that failed has issued       *)
(* exactly one request.                                                    *)
(***************************************************************************)
C22_NoNegativeCaching ==
    [][NoNegativeCaching(Operations)]_allVars

\* what a cache holds for its readers: the keys and values of its
\* unexpired entries
Visible(cache, maxAge) ==
    {[key |-> cache[k].key, value |-> cache[k].value] :
        k \in {j \in 1..Len(cache) : Fresh(cache[j], maxAge)}}

C24_FallbackYieldsTheAccount ==
    [][\A req \in inflight :
          (inflight' = inflight \ {req} /\ calls[req.h.call].op = "getUser"
              /\ CalledBack(req.h.call)
              /\ LastCb(req.h.call).err # TransportError)
          => LET c == req.h.call
                 fallback == calls[c].args[3] = "true"
             IN  IF fallback
                 THEN /\ LastCb(c).err = NoErr
                      /\ LastCb(c).value.account = ServerAccount
                 ELSE \/ LastCb(c).err = UserDoesNotExistError
                      \/ /\ LastCb(c).err = NoErr
                         /\ LastCb(c).value = UserInfo]_allVars

(***************************************************************************)
(* C25.  close() empties the auth cache and the translation cache, and     *)
(* after it no cache hit is served: no completion queued for a hit is      *)
(* delivered after close, and no call made after close is answered from a  *)
(* cache, whatever fetches were in flight when the client was closed.      *)
(***************************************************************************)
C25_NoHitAfterClose ==
    [][/\ (~closed /\ closed')
             => authCache' = <<>> /\ translationCache' = <<>>
       /\ ~(closed /\ ~Begins /\ Len(immediates') < Len(immediates))
       /\ (closed /\ Begins /\ NewCall'.op \in Operations)
             => /\ Queued = <<>>
                /\ Len(NewCall'.requests) > 0]_allVars

\* cache.set(key, value), then get(key) n ticks later: the value comes back
\* while n is below maxAge and is absent from then on
RoundTrip(cache, key, value, max, maxAge) ==
    \A n \in 0..(maxAge + 1) :
        LET got == CacheGet(AgedBy(CacheSet(cache, key, value, max), maxAge, n),
                            key, maxAge)
        IN  IF n < maxAge
            THEN got.hit /\ got.value = value
            ELSE ~got.hit /\ got.value = Undefined

\* the unexpired entries of the cache for the key, and whether it has none
FreshEntries(cache, key, maxAge) ==
    {e \in EntryOf(cache, key) : e.age < maxAge}
NoFreshEntry(cache, key, maxAge) == FreshEntries(cache, key, maxAge) = {}

\* the requests this step has issued
Issued == inflight' \ inflight

\* the values the new call has been given by the translation cache: those
\* of the completion it has queued or of the request it has issued
Found ==
    IF Len(Queued) > 0 THEN Queued[1].value
    ELSE (CHOOSE req \in Issued : TRUE).h.translations.uuids

\* the new call has read the key of one name or uuid x in the translation
\* cache: an unexpired entry gives the value and x is not asked for, and
\* with no unexpired entry x is asked for
ReadThrough(key, x) ==
    LET fresh == FreshEntries(translationCache, key, maxTranslationCacheAgeMs)
    IN  /\ fresh # {} =>
              /\ \A req \in Issued : x \notin Range(req.asked)
              /\ x \in DOMAIN Found
              /\ \E e \in fresh : Found[x] = e.value
        /\ fresh = {} =>
              /\ Queued = <<>>
              /\ \E req \in Issued : x \in Range(req.asked)

(***************************************************************************)
(* C26.  A cache entry set at time t comes back from get for its key at    *)
(* any time before t + ttl, and get finds nothing once ttl has passed; so  *)
(* what a retriever or translator call takes from a cache was stored less  *)
(* than ttl before the call, and a call that finds only an older entry     *)
(* asks the transport.                                                     *)
(***************************************************************************)
C26_VisibleUntilTtl ==
    [][/\ RoundTrip(authCache, "/accounts/A", AccountInfo,
                    maxAuthCacheSize, maxAuthCacheAgeMs)
       /\ RoundTrip(translationCache, "/uuid/A", "alice",
                    maxTranslationCacheSize, maxTranslationCacheAgeMs)
       /\ (Begins /\ NewCall'.op \in Retrievers)
             => LET key == KeyOf(NewCall')
                    fresh == FreshEntries(authCache, key, maxAuthCacheAgeMs)
                IN  /\ fresh # {} =>
                          /\ Issued = {}
                          /\ Len(Queued) > 0
                          /\ \A k \in 1..Len(Queued) :
                                \E e \in fresh : Queued[k].value = e.value
                    /\ fresh = {} =>
                          /\ Queued = <<>>
                          /\ \E req \in Issued : req.path = key
       /\ (Begins /\ NewCall'.op = "getName")
             => \A u \in Range(NewCall'.args) :
                   ReadThrough("/uuid/" \o u, u)
       /\ (Begins /\ NewCall'.op = "getUuid" /\ NewCall'.args[2] # NoType)
             => \A n \in Range(NamesOf(NewCall')) :
                   ReadThrough(NameKey(NewCall'.args[2], NewCall'.args[1], n),
                               n)
       /\ (Begins /\ NewCall'.op = "getUuid" /\ NewCall'.args[2] = NoType)
             => LET fresh == FreshEntries(translationCache,
                                          AccountKey(NewCall'.args[1]),
                                          maxTranslationCacheAgeMs)
                IN  /\ fresh # {} =>
                          /\ Issued = {}
                          /\ Len(Queued) = 1
                          /\ \E e \in fresh :
                                Queued[1].value = [account |-> e.value]
                    /\ fresh = {} =>
                          /\ Queued = <<>>
                          /\ Issued # {}]_allVars

\* getAccount has fetched a blob, the maximum age has passed, and its
\* repeat has found the entry expired and asked the transport again
C26_Witness ==
    /\ Len(calls) = 2
    /\ ~closed
    /\ calls[1].op = "getAccount"
    /\ calls[2].op = "getAccount"
    /\ Len(calls[1].cbs) = 1
    /\ calls[1].cbs[1].err = NoErr
    /\ calls[1].cbs[1].age = maxAuthCacheAgeMs
    /\ Len(calls[2].requests) = 1
    /\ calls[2].cbs = <<>>
    /\ authCache = <<>>

\* the max most recently used entries of a list of entries, least
\* recently used first
MostRecent(entries, max) ==
    IF Len(entries) > max
    THEN SubSeq(entries, Len(entries) - max + 1, Len(entries))
    ELSE entries

KeysOf(cache) == [k \in 1..Len(cache) |-> cache[k].key]

\* the cache after the entries written were set, one after the other
AfterSets(cache, written, max) ==
    MostRecent(SelectSeq(cache, LAMBDA e : e.key \notin Range(KeysOf(written)))
                   \o written,
               max)

\* the translations the answer to the request makes the client set, in the
\* order it sets them
Written(req) ==
    IF req.h.fn = "gotNames"
    THEN [k \in 1..Len(req.asked) |->
             [key |-> "/uuid/" \o req.asked[k],
              value |-> NameOfUuid(req.asked[k]), age |-> 0]]
    ELSE <<[key |-> "/uuid/" \o ServerAccount.uuid,
            value |-> ServerAccount.login, age |-> 0],
           [key |-> "/account/" \o ServerAccount.login,
            value |-> ServerAccount.uuid, age |-> 0]>>

\* the unexpired translations getName finds for the uuids, in the order it
\* looks them up
HitsOf(uuids) ==
    LET hs == SelectSeq(uuids,
                  LAMBDA u : ~NoFreshEntry(translationCache, "/uuid/" \o u,
                                           maxTranslationCacheAgeMs))
    IN  [k \in 1..Len(hs) |->
            CHOOSE e \in FreshEntries(translationCache, "/uuid/" \o hs[k],
                                      maxTranslationCacheAgeMs) : TRUE]

(***************************************************************************)
(* C27.  Each cache holds at most the number of entries the constructor    *)
(* was given for it (50 when it was given none), each cache by its own     *)
(* number.  A set always stores its entry; when the cache is full it       *)
(* evicts the least recently used entries, and a get that hits counts as   *)
(* a use of the entry.                                                     *)
(***************************************************************************)
C27_CapacityAndLruEviction ==
    [][/\ Len(authCache') <= maxAuthCacheSize
       /\ Len(translationCache') <= maxTranslationCacheSize
       /\ \A req \in inflight :
             (inflight' = inflight \ {req} /\ CalledBack(req.h.call)
                 /\ LastCb(req.h.call).err = NoErr)
             => /\ req.h.fn = "_get" =>
                      authCache' =
                         AfterSets(authCache,
                                   <<[key |-> req.path,
                                      value |-> LastCb(req.h.call).value,
                                      age |-> 0]>>,
                                   maxAuthCacheSize)
                /\ translationCache' =
                      AfterSets(translationCache, Written(req),
                                maxTranslationCacheSize)
       /\ (Begins /\ NewCall'.op \in Retrievers)
             => \A e \in FreshEntries(authCache, KeyOf(NewCall'),
                                      maxAuthCacheAgeMs) :
                   authCache' =
                      Append(CacheWithout(authCache, KeyOf(NewCall')), e)
       /\ (Begins /\ NewCall'.op = "getName")
             => translationCache' =
                   SelectSeq(translationCache,
                             LAMBDA e : e.key \notin
                                 {"/uuid/" \o u : u \in Range(NewCall'.args)})
                       \o HitsOf(NewCall'.args)]_allVars

\* in a translation cache of two entries that held the two translations of
\* getAccount, getName has found the account's uuid and fetched the user's:
\* the entry evicted for it is the login -> uuid one, which was set last
\* but not used since
C27_Witness ==
    /\ maxTranslationCacheSize = 2
    /\ Len(calls) = 2
    /\ calls[1].op = "getAccount"
    /\ Len(calls[1].cbs) = 1
    /\ calls[1].cbs[1].err = NoErr
    /\ calls[2].op = "getName"
    /\ calls[2].args = <<"A", "U1">>
    /\ calls[2].requests = <<"/names?&uuid=U1">>
    /\ Len(calls[2].cbs) = 1
    /\ calls[2].cbs[1].err = NoErr
    /\ KeysOf(translationCache) = <<"/uuid/A", "/uuid/U1">>

(***************************************************************************)
(* C28.  Requests are not coalesced.  A call that misses issues its own    *)
(* transport request, also while a request for the same key is in flight;  *)
(* each answer is delivered to the callback of the call that issued the    *)
(* request and to no other, and each successful answer writes the cache,   *)
(* so the entry the cache holds is the one of the answer that came last.   *)
(***************************************************************************)
C28_NoCoalescing ==
    [][/\ (Begins /\ NewCall'.op \in Retrievers
             /\ NoFreshEntry(authCache, KeyOf(NewCall'), maxAuthCacheAgeMs))
             => /\ Issued # {}
                /\ Cardinality(inflight') =
                      Cardinality(inflight) + Len(NewCall'.requests)
                /\ \A req \in Issued :
                      /\ req.h.call = Len(calls')
                      /\ req.path = KeyOf(NewCall')
       /\ (Begins /\ NewCall'.op = "getName"
             /\ Len(UncachedUuids(NewCall'.args)) > 0)
             => /\ Cardinality(inflight') = Cardinality(inflight) + 1
                /\ \A req \in Issued :
                      /\ req.h.call = Len(calls')
                      /\ req.asked = UncachedUuids(NewCall'.args)
       /\ \A req \in inflight :
             (inflight' = inflight \ {req})
             => /\ CalledBack(req.h.call)
                /\ \A c \in 1..Len(calls) :
                      c # req.h.call => calls'[c] = calls[c]
                /\ (LastCb(req.h.call).err = NoErr /\ req.h.fn = "_get")
                      => /\ LastCb(req.h.call).value = ServerAnswer(req)
                         /\ EntryOf(authCache', req.path) =
                               {[key |-> req.path,
                                 value |-> ServerAnswer(req), age |-> 0]}
                /\ (LastCb(req.h.call).err = NoErr /\ req.h.fn = "gotNames")
                      => \A u \in Range(req.asked) :
                            EntryOf(translationCache', "/uuid/" \o u) =
                               {[key |-> "/uuid/" \o u,
                                 value |-> NameOfUuid(u), age |-> 0]}
      ]_allVars

\* two getAccount calls for the same login have both missed and both been
\* answered, the second one a tick before the first; the entry in the
\* cache is the one of the answer that came last
C28_Witness ==
    /\ Len(calls) = 2
    /\ calls[1].op = "getAccount"
    /\ calls[2].op = "getAccount"
    /\ calls[1].args = calls[2].args
    /\ Len(calls[1].requests) = 1
    /\ Len(calls[2].requests) = 1
    /\ Len(calls[1].cbs) = 1
    /\ Len(calls[2].cbs) = 1
    /\ calls[1].cbs[1].err = NoErr
    /\ calls[2].cbs[1].err = NoErr
    /\ calls[1].cbs[1].age = 0
    /\ calls[2].cbs[1].age = 1
    /\ EntryOf(authCache, KeyOf(calls[1])) =
          {[key |-> KeyOf(calls[1]), value |-> AccountInfo, age |-> 0]}

\* this step has changed a value a callback was given earlier
GivenValueChanged ==
    \E c \in 1..Len(calls) : \E k \in 1..Len(calls[c].cbs) :
        /\ calls[c].cbs[k].err = NoErr
        /\ calls'[c].cbs[k].value # calls[c].cbs[k].value

(***************************************************************************)
(* C29.  A blob is not changed once it was returned, and the client keeps  *)
(* no reference to a value it handed to a caller: a caller that modifies   *)
(* the blob it was given changes nothing in the auth cache, and a later    *)
(* hit for the key returns the account as the service sent it.             *)
(***************************************************************************)
C29_ReturnedBlobsAreNotShared ==
    [][/\ GivenValueChanged
             => /\ authCache' = authCache
                /\ immediates' = immediates
       /\ (Begins /\ NewCall'.op \in Retrievers)
             => \A k \in 1..Len(Queued) :
                   Queued[k].value.account = ServerAccount]_allVars

(****************************************************************************)
(* C30: each client owns its two caches.  A step of one client (a call, a  *)
(* queued function, an answer of the transport, close) leaves the auth     *)
(* cache and the translation cache of the other client as they were and    *)
(* queues no answer on it; and a client answers a call from its cache only *)
(* after a fetch of its own has succeeded, whatever the other client holds.*)
(***************************************************************************)
\* the parts of a client that change whenever a step is taken on it
Activity(S) == <<S.calls, S.immediates, S.inflight, S.closed>>

\* what a step on the other client must leave alone
CachesOf(S) == <<S.authCache, S.translationCache, S.immediates>>

\* the client S has answered a call without a request only after one of
\* its own requests succeeded
HitsAreItsOwn(S) ==
    \A c \in 1..Len(S.calls) :
        S.calls[c].requests = <<>> =>
            \E d \in 1..Len(S.calls) :
                /\ S.calls[d].requests # <<>>
                /\ \E n \in 1..Len(S.calls[d].cbs) :
                       S.calls[d].cbs[n].err = NoErr

C30_EachClientOwnsItsCaches ==
    [][/\ Activity(Self)' # Activity(Self) =>
              CachesOf(other)' = CachesOf(other)
       /\ Activity(other)' # Activity(other) =>
              CachesOf(Self)' = CachesOf(Self)
       /\ HitsAreItsOwn(Self)' /\ HitsAreItsOwn(other)']_allVars

\* the first client fetched, answered a second call from its cache and was
\* closed; the second client fetched the same key itself and still holds it
C30_Witness ==
    /\ Len(calls) = 2
    /\ calls[1].requests # <<>>
    /\ calls[2].requests = <<>>
    /\ Len(calls[2].cbs) = 1
    /\ closed
    /\ authCache = <<>>
    /\ translationCache = <<>>
    /\ ~other.closed
    /\ Len(other.calls) = 1
    /\ other.calls[1].op = calls[1].op
    /\ other.calls[1].requests # <<>>
    /\ Len(other.authCache) + Len(other.translationCache) > 0

\* nothing of call c is left to run: no request of it is in flight and no
\* function of it is queued
Settled(c) ==
    /\ \A req \in inflight : req.h.call # c
    /\ \A n \in 1..Len(immediates) : immediates[n].k.call # c

\* The callback of a call of one of the operations ops has run at most
\* once, and once when nothing of the call is left to run; the call has
\* issued at most one request, and one when its key was not cached.
CalledBackOnce(ops) ==
    \A c \in 1..Len(calls) :
        calls[c].op \in ops =>
            /\ Len(calls[c].cbs) <= 1
            /\ Len(calls[c].requests) <= 1
            /\ Settled(c) => Len(calls[c].cbs) = 1

(***************************************************************************)
(* C31.  Every call of getAccount, getAccountById, getUser and getUserById *)
(* runs the caller's callback exactly once when the transport answers      *)
(* (never twice, never not at all), and a miss issues exactly one request. *)
(***************************************************************************)
C31_CallbackExactlyOnce == CalledBackOnce(Retrievers)

\* the three ways to an allow, as the specification states them
AllowedAsAccount ==
    /\ Principal.user = NoUser
    /\ \/ Principal.account.uuid = Owner.account.uuid
       \/ Principal.account.isOperator

PassedBlockedChecks == ~PrincipalBlocked /\ ~OwnerBlocked

AllowedAsAdministrator ==
    /\ PassedBlockedChecks
    /\ \E k \in 1..Len(ActiveRoles) :
          /\ ActiveRoles[k] \in DOMAIN Principal.roles
          /\ Principal.roles[ActiveRoles[k]].name = "administrator"
          /\ \/ Principal.roles[ActiveRoles[k]].account = Owner.account.uuid
             \/ /\ Principal.account.isOperator
                /\ Principal.roles[ActiveRoles[k]].account
                       = Principal.account.uuid

AllowedByRules ==
    /\ PassedBlockedChecks
    /\ \A k \in 1..Len(ActiveRoles) :
          ActiveRoles[k] \in DOMAIN Principal.roles
    /\ Len(evalCalls) = 1
    /\ evalCalls[1].ok
    /\ Len(evalCalls[1].rules) > 0

DecisionErrors ==
    {"AccountBlocked", "InvalidRole", "NoMatchingRoleTag",
     "RulesEvaluationFailed"}

(***************************************************************************)
(* C32.  authorize returns allow only (a) for a principal without user     *)
(* that is the owner's account or an operator, (b) after the blocked       *)
(* checks, for a held active role named administrator of the owner's       *)
(* account or of the principal's own operator account, or (c) after the    *)
(* blocked checks, with every active role held, when the evaluator         *)
(* accepted a non-empty evaluation set.  Every other call fails with       *)
(* exactly one of AccountBlocked, InvalidRole, NoMatchingRoleTag and       *)
(* RulesEvaluationFailed: the outcome is allow or one of these errors,     *)
(* never anything in between.                                              *)
(***************************************************************************)
C32_AllowOnlyByThreeWays ==
    Called =>
        /\ result = Allow \/ result.kind \in DecisionErrors
        /\ result = Allow =>
              AllowedAsAccount \/ AllowedAsAdministrator \/ AllowedByRules
        /\ ~(AllowedAsAccount \/ AllowedAsAdministrator \/ AllowedByRules)
              => result.kind \in DecisionErrors
        /\ result # Allow => evalCalls = <<>> \/ ~evalCalls[1].ok

\* C32 witness: a sub-user of another account, with every active role held
\* and none an administrator role that allows, is allowed by the evaluator
C32_Witness ==
    /\ Called
    /\ result = Allow
    /\ ~AllowedAsAccount
    /\ ~AllowedAsAdministrator
    /\ AllowedByRules
    /\ Principal.user # NoUser
    /\ Owner.account.uuid # Principal.account.uuid
    /\ Len(ActiveRoles) = 2

\* activeRoles holds exactly one id the principal does not hold, and no
\* role named administrator
OneUnknownAmongOrdinaryRoles ==
    /\ Cardinality(UnknownPositions) = 1
    /\ \A k \in 1..Len(ActiveRoles) :
          k \notin UnknownPositions
              => Principal.roles[ActiveRoles[k]].name # "administrator"

(***************************************************************************)
(* C33.  An unknown role id fails the whole call: when the call comes to   *)
(* the loop over activeRoles, and activeRoles holds only roles not named   *)
(* administrator and one id that is not a key of principal.roles, the call *)
(* fails with InvalidRole naming that id, also when another active role is *)
(* tagged on the resource and holds rules, whatever the evaluator would    *)
(* answer; the evaluator is not called.                                    *)
(***************************************************************************)
C33_UnknownRoleFailsTheCall ==
    (ReachesLoop /\ OneUnknownAmongOrdinaryRoles)
        => /\ result = [kind |-> "InvalidRole",
                        detail |-> ActiveRoles[FirstUnknown]]
           /\ evalCalls = <<>>

\* C33 witness: the unknown id stands first, before a role that is tagged
\* on the resource and holds rules; the call fails before it comes to that
\* role
C33_Witness ==
    /\ ReachesLoop
    /\ OneUnknownAmongOrdinaryRoles
    /\ Len(ActiveRoles) = 2
    /\ UnknownPositions = {1}
    /\ ActiveRoles[2] \in ResourceRoles
    /\ Len(Principal.roles[ActiveRoles[2]].rules) > 0
    /\ result = [kind |-> "InvalidRole", detail |-> ActiveRoles[1]]
    /\ matchingRoles = <<>>
    /\ evalCalls = <<>>

\* the principal is a user of the account that owns the resource, or of an
\* operator account
SubUserOfOwnerOrOperator ==
    /\ Principal.user # NoUser
    /\ \/ Principal.account.uuid = Owner.account.uuid
       \/ Principal.account.isOperator

\* the call returned from the administrator branch of the loop
AllowedInAdminBranch ==
    /\ i \in 1..Len(ActiveRoles)
    /\ SpecAdminBypass(Principal, opts.resource, ActiveRoles, i)
    /\ evalCalls = <<>>

\* the call returned what the evaluator answered
AllowedByEvaluator ==
    /\ i = Len(ActiveRoles) + 1
    /\ Len(evalCalls) = 1
    /\ evalCalls[1].ok

(***************************************************************************)
(* C34.  The owner/operator bypass of step 1 never applies to a principal  *)
(* with a user: a user of the account that owns the resource, or of an     *)
(* operator account, is allowed only by the administrator branch of the    *)
(* loop or by the evaluator, and with no active role and no blocked        *)
(* account the call fails with NoMatchingRoleTag.                          *)
(***************************************************************************)
C34_NoBypassForSubUsers ==
    (Called /\ SubUserOfOwnerOrOperator) =>
        /\ result = Allow => AllowedInAdminBranch \/ AllowedByEvaluator
        /\ (ActiveRoles = <<>> /\ ~PrincipalBlocked /\ ~OwnerBlocked)
              => /\ result = NoMatchingRoleTagError
                 /\ evalCalls = <<>>

\* C34 witness: a user of the operator account that owns the resource calls
\* with no active role and gets NoMatchingRoleTag
C34_Witness ==
    /\ Called
    /\ Principal.user # NoUser
    /\ Principal.account.uuid = Owner.account.uuid
    /\ Principal.account.isOperator
    /\ ActiveRoles = <<>>
    /\ result = NoMatchingRoleTagError

\* the calls of getUser made without fallback
WithoutFallback ==
    {c \in 1..Len(calls) :
        calls[c].op = "getUser" /\ calls[c].args[3] = BoolStr(FALSE)}

\* the auth-cache key of a getUser call
UserKey(call) ==
    "/users?account=" \o call.args[2] \o "&login=" \o call.args[1]
        \o "&fallback=" \o call.args[3]

\* the blob of an account alone, as a fallback answer carries it
AccountOnly(blob) == blob.user = NoUser

(***************************************************************************)
(* C35.  A getUser call made without fallback is never answered from an    *)
(* entry a fallback call has cached: the key holds the fallback flag, so   *)
(* the entry under the key of a non-fallback call was written by the       *)
(* answer to a non-fallback request, and such a call fails or hands its    *)
(* callback a blob with the user, never the account-only blob of           *)
(* getUser(..., true); while only fallback entries are cached it asks the  *)
(* service.                                                                *)
(***************************************************************************)
C35_FallbackEntriesServeFallbackCallsOnly ==
    \A c \in WithoutFallback :
        /\ \A n \in 1..Len(calls[c].cbs) :
              calls[c].cbs[n].err = NoErr
                  => ~AccountOnly(calls[c].cbs[n].value)
        /\ \A n \in 1..Len(immediates) :
              immediates[n].k.call = c => ~AccountOnly(immediates[n].value)
        /\ \A n \in 1..Len(authCache) :
              authCache[n].key = UserKey(calls[c])
                  => ~AccountOnly(authCache[n].value)
        /\ (\A d \in 1..(c - 1) : d \notin WithoutFallback)
              => Len(calls[c].requests) = 1

\* C35 witness: a fallback call has cached the account-only blob, which is
\* still fresh; the non-fallback call for the same user made after it has
\* asked the service and was handed the user's blob
C35_Witness ==
    /\ Len(calls) = 2
    /\ calls[1].op = "getUser" /\ calls[1].args[3] = BoolStr(TRUE)
    /\ 2 \in WithoutFallback
    /\ calls[2].args[1] = calls[1].args[1]
    /\ calls[2].args[2] = calls[1].args[2]
    /\ \E n \in 1..Len(authCache) :
          /\ authCache[n].key = UserKey(calls[1])
          /\ AccountOnly(authCache[n].value)
          /\ Fresh(authCache[n], maxAuthCacheAgeMs)
    /\ Len(calls[2].requests) = 1
    /\ Len(calls[2].cbs) = 1
    /\ calls[2].cbs[1].err = NoErr
    /\ calls[2].cbs[1].value = UserInfo

\* the step runs the queued completion of a retriever call that was
\* answered from the auth cache, on a client that was not closed: no answer
\* of the transport is involved
CompletesHit ==
    /\ ~closed
    /\ Len(immediates) > 0
    /\ immediates' = Tail(immediates)
    /\ inflight' = inflight
    /\ calls[Head(immediates).k.call].op \in Retrievers

(***************************************************************************)
(* C36.  The translations the translation cache serves come from an answer *)
(* of the service received less than the translation ttl earlier; in       *)
(* particular a retriever call answered from the auth cache, without a     *)
(* request, leaves the entries of the translation cache and their          *)
(* insertion times as they were.                                           *)
(***************************************************************************)
C36_HitLeavesTranslationsAlone ==
    [][CompletesHit => translationCache' = translationCache]_allVars

\* this step begins a getUuid call with a type while the translation cache
\* holds unexpired entries for the account login and for every name asked
AllFoundInTheCache ==
    /\ Begins
    /\ NewCall'.op = "getUuid"
    /\ NewCall'.args[2] # NoType
    /\ NamesOf(NewCall') # <<>>
    /\ CacheGet(translationCache, AccountKey(NewCall'.args[1]),
                maxTranslationCacheAgeMs).hit
    /\ UncachedNames(NewCall'.args[2], NewCall'.args[1], NamesOf(NewCall'))
           = <<>>

(***************************************************************************)
(* C37.  In getUuid with a type, when the account login and every name     *)
(* asked are in the translation cache, the early return 'all names/logins  *)
(* were found in the cache, nothing to ask the server' is taken: the call  *)
(* queues its completion and issues no transport request.                  *)
(***************************************************************************)
C37_GetUuidAllCachedAsksNothing ==
    [][AllFoundInTheCache
          => /\ inflight' = inflight
             /\ NewCall'.requests = <<>>
             /\ Len(Queued) = 1]_allVars

=============================================================================
